---- MODULE Spec2Model ----
(***************************************************************************)
(* Progress-tracked orchestrator of the Pearson grade-conversion scraper:  *)
(* scrapeSeries / processSubject / processUnit (src/modules/scraper.js)    *)
(* driving the ProgressTracker ledger (src/modules/dataProcessor.js), with *)
(* the process being terminated and started again.                         *)
(***************************************************************************)
EXTENDS Integers, Sequences, FiniteSets, TLC

(* ------------------------------ bounds --------------------------------- *)
\* longest unit listing the source site returns for a subject
MaxUnits == 2
\* number of times the process is started
MaxRuns == 3
\* longest subject listing handed to the subject filter
MaxSubjects == 2
\* most files in a subject folder of the raw tree
MaxFiles == 2
\* environment faults per behaviour: adapter errors, empty extractions,
\* failed ledger writes, process terminations
MaxFaults == 2
\* most saveData calls of an Orchestrator run that goes on during a merge
MaxWrites == 1
\* most tokens in a name the pure functions are called with
MaxTokens == 4

(* --------------------------- the source site --------------------------- *)
QUALIFICATION_TYPE == "International A Level"

\* The link texts the site can list as sessions, taken apart the way the
\* pattern /^(January|June|October)\s+\d{4}$/ reads them: the leading word,
\* the number of white-space characters after it, the number of digits after
\* those, and whether anything follows the digits.
Parts(label) ==
  CASE label = "June 2019" ->
         [word |-> "June", spaces |-> 1, digits |-> 4, rest |-> FALSE]
    [] label = "January 2020" ->
         [word |-> "January", spaces |-> 1, digits |-> 4, rest |-> FALSE]
    [] label = "Summer 2019" ->
         [word |-> "Summer", spaces |-> 1, digits |-> 4, rest |-> FALSE]
    [] label = "June 19" ->
         [word |-> "June", spaces |-> 1, digits |-> 2, rest |-> FALSE]
    [] label = "June 2019 results" ->
         [word |-> "June", spaces |-> 1, digits |-> 4, rest |-> TRUE]
    [] label = "October2019" ->
         [word |-> "October", spaces |-> 0, digits |-> 4, rest |-> FALSE]

\* the test of the session filter
isSessionLabel(label) ==
  LET parts == Parts(label)
  IN /\ parts.word \in {"January", "June", "October"}
     /\ parts.spaces >= 1
     /\ parts.digits = 4
     /\ ~parts.rest

\* the session listings: one with two sessions among other links, one with
\* no link that is a session, an empty one
SessionListings ==
  {<<"June 2019", "June 19", "January 2020", "October2019">>,
   <<"Summer 2019", "June 2019 results">>,
   <<>>}

\* the subjects of a session that pass shouldProcessSubject, in listing
\* order; the listing of January 2020 has the same label twice
filteredSubjects(session) ==
  IF session = "June 2019" THEN <<"Physics", "Chemistry">>
                           ELSE <<"Physics", "Physics">>

UnitLabel(n) == n

\* the unit listings a subject can have: no unit, the first n labels, or the
\* first label listed twice
UnitListings ==
  {[i \in 1..n |-> UnitLabel(i)] : n \in 0..MaxUnits}
    \cup {[i \in 1..2 |-> UnitLabel(1)]}

\* the sites: where sessions are listed Physics has any of these listings
\* and Chemistry has one unit
Sites ==
  {[sessionsList |-> s, Physics |-> l, Chemistry |-> <<UnitLabel(1)>>] :
     <<s, l>> \in {sl \in SessionListings \X UnitListings :
                     \/ \E i \in 1..Len(sl[1]) : isSessionLabel(sl[1][i])
                     \/ sl[2] = <<UnitLabel(1)>>}}

(* ------------------------------- strings ------------------------------- *)
\* a string is the sequence of its characters
UpperCase == <<"A", "B", "C", "D", "E", "F", "G", "H", "I", "J", "K", "L", "M", "N", "O", "P", "Q", "R", "S", "T", "U", "V", "W", "X", "Y", "Z">>
LowerCase == <<"a", "b", "c", "d", "e", "f", "g", "h", "i", "j", "k", "l", "m", "n", "o", "p", "q", "r", "s", "t", "u", "v", "w", "x", "y", "z">>

toLowerCase(str) ==
  [i \in 1..Len(str) |->
     IF \E n \in 1..Len(UpperCase) : UpperCase[n] = str[i]
       THEN LowerCase[CHOOSE n \in 1..Len(UpperCase) : UpperCase[n] = str[i]]
       ELSE str[i]]

\* str.includes(part)
includes(str, part) ==
  \E i \in 0..(Len(str) - Len(part)) : SubSeq(str, i + 1, i + Len(part)) = part

RECURSIVE trimStart(_)
trimStart(str) ==
  IF str # <<>> /\ Head(str) = " " THEN trimStart(Tail(str)) ELSE str

RECURSIVE trimEnd(_)
trimEnd(str) ==
  IF str # <<>> /\ str[Len(str)] = " "
    THEN trimEnd(SubSeq(str, 1, Len(str) - 1))
    ELSE str

trim(str) == trimEnd(trimStart(str))

\* str.split(","): the pieces between the commas, empty ones included
RECURSIVE split(_)
split(str) ==
  IF \E i \in 1..Len(str) : str[i] = ","
    THEN LET i == CHOOSE j \in 1..Len(str) :
                    str[j] = "," /\ \A k \in 1..(j - 1) : str[k] # ","
         IN <<SubSeq(str, 1, i - 1)>> \o split(SubSeq(str, i + 1, Len(str)))
    ELSE <<str>>

(* ------------------------- the identifier parser ----------------------- *)
Digits == <<"0", "1", "2", "3", "4", "5", "6", "7", "8", "9">>

isUpperAt(str, i) ==
  i <= Len(str) /\ \E n \in 1..Len(UpperCase) : UpperCase[n] = str[i]

isDigitAt(str, i) ==
  i <= Len(str) /\ \E n \in 1..Len(Digits) : Digits[n] = str[i]

\* the result of a match that failed: null
NoCode == <<>>

\* parseUnitCode as it would be without the [A-Z]? that ends the pattern
parseUnitCode_noSuffixLetter(filename) ==
  LET letters ==
        IF isUpperAt(filename, 1) /\ isUpperAt(filename, 2)
             /\ isUpperAt(filename, 3)
             /\ isDigitAt(filename, 4) /\ isDigitAt(filename, 5) THEN 3
        ELSE IF isUpperAt(filename, 1) /\ isUpperAt(filename, 2)
             /\ isDigitAt(filename, 3) /\ isDigitAt(filename, 4) THEN 2
        ELSE 0
      core == letters + 2
      dashed ==
        IF core + 3 <= Len(filename) /\ filename[core + 1] = "-"
             /\ isDigitAt(filename, core + 2) /\ isDigitAt(filename, core + 3)
          THEN core + 3 ELSE core
  IN IF letters = 0 THEN NoCode ELSE SubSeq(filename, 1, dashed)

\* parseUnitCode: the prefix /^([A-Z]{2,3}\d{2}(?:-\d{2})?[A-Z]?)/ matches.
\* Two or three capitals and two digits, then -NN when it is there, then one
\* capital when it is there.
parseUnitCode(filename) ==
  LET letters ==
        IF isUpperAt(filename, 1) /\ isUpperAt(filename, 2)
             /\ isUpperAt(filename, 3)
             /\ isDigitAt(filename, 4) /\ isDigitAt(filename, 5) THEN 3
        ELSE IF isUpperAt(filename, 1) /\ isUpperAt(filename, 2)
             /\ isDigitAt(filename, 3) /\ isDigitAt(filename, 4) THEN 2
        ELSE 0
      core == letters + 2
      dashed ==
        IF core + 3 <= Len(filename) /\ filename[core + 1] = "-"
             /\ isDigitAt(filename, core + 2) /\ isDigitAt(filename, core + 3)
          THEN core + 3 ELSE core
      last == IF isUpperAt(filename, dashed + 1) THEN dashed + 1 ELSE dashed
  IN IF letters = 0 THEN NoCode ELSE SubSeq(filename, 1, last)

\* file.endsWith(".json")
endsWithJson(filename) ==
  /\ Len(filename) >= 5
  /\ SubSeq(filename, Len(filename) - 4, Len(filename)) = <<".", "j", "s", "o", "n">>

\* the number of white-space characters str starts with
RECURSIVE leadingSpaces(_)
leadingSpaces(str) ==
  IF str # <<>> /\ Head(str) = " " THEN 1 + leadingSpaces(Tail(str)) ELSE 0

\* str.replace(/\s*\(\d{4}\)\s*/g, ""): every year in brackets goes, with
\* the white space around it
RECURSIVE stripYears(_)
stripYears(str) ==
  IF str = <<>> THEN <<>>
  ELSE LET w == leadingSpaces(str)
           year == /\ w + 6 <= Len(str)
                   /\ str[w + 1] = "(" /\ str[w + 6] = ")"
                   /\ \A i \in (w + 2)..(w + 5) : isDigitAt(str, i)
       IN IF year
            THEN LET after == SubSeq(str, w + 7, Len(str))
                 IN stripYears(SubSeq(after, leadingSpaces(after) + 1,
                                      Len(after)))
            ELSE <<Head(str)>> \o stripYears(Tail(str))

\* str.replace(/_+$/, "")
RECURSIVE stripUnderscores(_)
stripUnderscores(str) ==
  IF str # <<>> /\ str[Len(str)] = "_"
    THEN stripUnderscores(SubSeq(str, 1, Len(str) - 1))
    ELSE str

getBaseSubjectName(name) == stripUnderscores(stripYears(name))

Mathematics == <<"M", "a", "t", "h", "e", "m", "a", "t", "i", "c", "s">>
Further_Mathematics == <<"F", "u", "r", "t", "h", "e", "r", "_", "M", "a", "t", "h", "e", "m", "a", "t", "i", "c", "s">>
Pure_Mathematics == <<"P", "u", "r", "e", "_", "M", "a", "t", "h", "e", "m", "a", "t", "i", "c", "s">>

isMathSubject(name) ==
  name \in {Mathematics, Further_Mathematics, Pure_Mathematics}

(* -------------------------- the subject filter ------------------------- *)
\* const FILTER_SUBJECTS of the scraper module
FILTER_SUBJECTS ==
  <<<<"P", "h", "y", "s", "i", "c", "s">>,
    <<"C", "h", "e", "m", "i", "s", "t", "r", "y">>,
    <<"B", "i", "o", "l", "o", "g", "y">>,
    <<"M", "a", "t", "h", "e", "m", "a", "t", "i", "c", "s">>,
    <<"F", "u", "r", "t", "h", "e", "r", " ", "M", "a", "t", "h", "e", "m", "a", "t", "i", "c", "s">>,
    <<"P", "u", "r", "e", " ", "M", "a", "t", "h", "e", "m", "a", "t", "i", "c", "s">>,
    <<"A", "c", "c", "o", "u", "n", "t", "i", "n", "g">>,
    <<"E", "c", "o", "n", "o", "m", "i", "c", "s">>,
    <<"B", "u", "s", "i", "n", "e", "s", "s">>>>

\* shouldProcessSubject with the list it is evaluated against
matchesFilter(name, filterTerms) ==
  \/ filterTerms = <<>>
  \/ \E n \in 1..Len(filterTerms) :
       includes(toLowerCase(name), toLowerCase(filterTerms[n]))

\* shouldProcessSubject: FILTER_SUBJECTS is the constant of its own module
shouldProcessSubject(name) == matchesFilter(name, FILTER_SUBJECTS)

\* the values of process.argv after the script path
FlagSubjects == <<"-", "-", "s", "u", "b", "j", "e", "c", "t", "s">>
FlagTest == <<"-", "-", "t", "e", "s", "t">>
ArgvChoices ==
  {<<>>,
   <<FlagTest,
     <<"J", "u", "n", "e", " ", "2", "0", "1", "9">>,
     <<"P", "h", "y", "s", "i", "c", "s">>,
     <<"W", "P", "H", "0", "1">>>>,
   <<FlagTest,
     <<"J", "u", "n", "e", " ", "2", "0", "1", "9">>,
     <<"P", "h", "y", "s", "i", "c", "s">>>>,
   <<FlagSubjects, <<"l", "a", "w">>,
     FlagTest,
     <<"J", "u", "n", "e", " ", "2", "0", "1", "9">>,
     <<"L", "a", "w">>,
     <<"W", "L", "A", "0", "1">>>>,
   <<FlagSubjects>>,
   <<FlagSubjects, <<"A", "r", "a", "b", "i", "c">>>>,
   <<FlagSubjects, <<" ", "l", "a", "w", " ", ",", "p", "h", "y", "s">>>>,
   <<FlagSubjects, <<",", " ", ",">>>>,
   <<FlagSubjects, <<"B", "I", "O">>>>}

isNonEmpty(str) == Len(str) > 0

\* a list of filter terms, or null / undefined
Null == [null |-> TRUE, terms |-> <<>>]
Terms(list) == [null |-> FALSE, terms |-> list]

\* parseSubjectFilter: the terms after --subjects, null when the flag or its
\* terms are missing
parseSubjectFilter(args) ==
  IF \E i \in 1..(Len(args) - 1) : args[i] = FlagSubjects
    THEN LET i == CHOOSE j \in 1..(Len(args) - 1) :
                    args[j] = FlagSubjects
                      /\ \A k \in 1..(j - 1) : args[k] # FlagSubjects
             pieces == split(args[i + 1])
             terms == SelectSeq([n \in 1..Len(pieces) |-> trim(pieces[n])],
                                isNonEmpty)
         IN IF Len(terms) > 0 THEN Terms(terms) ELSE Null
    ELSE Null

\* checkForTestMode: the three arguments after --test, when there are three
checkForTestMode(args) ==
  IF \E i \in 1..(Len(args) - 3) : args[i] = FlagTest
    THEN LET i == CHOOSE j \in 1..(Len(args) - 3) :
                    args[j] = FlagTest
                      /\ \A k \in 1..(j - 1) : args[k] # FlagTest
         IN [isTest |-> TRUE, session |-> args[i + 1],
             subject |-> args[i + 2], unit |-> args[i + 3]]
    ELSE [isTest |-> FALSE, session |-> <<>>, subject |-> <<>>,
          unit |-> <<>>]

\* the subject links a session page can list
SubjectNames ==
  {<<"P", "h", "y", "s", "i", "c", "s">>,
   <<"A", "r", "a", "b", "i", "c">>,
   <<"L", "a", "w">>,
   <<"B", "I", "O", "L", "O", "G", "Y", " ", "(", "2", "0", "1", "5", ")">>}

(* ------------------------------ the ledger ----------------------------- *)
ZeroStats ==
  [totalSessions |-> 0, totalSubjects |-> 0, totalUnits |-> 0,
   completedUnits |-> 0, failedUnits |-> 0, completedSessions |-> 0]

\* this.progress as the constructor builds it.  kind tells a ledger object
\* from the other documents JSON.parse can return (null, an object that has
\* no stats) and from files that do not parse at all.
FreshProgress ==
  [kind |-> "ledger", completed |-> {}, failed |-> {},
   completedSessions |-> {}, stats |-> ZeroStats]

Content(k) == [FreshProgress EXCEPT !.kind = k]

Key(session, subject, unit) == <<session, subject, unit>>

\* isCompleted as it would be if the lookup never found the unit
isCompleted_neverFound(p, session, subject, unit) == FALSE

isCompleted(p, session, subject, unit) ==
  Key(session, subject, unit) \in p.completed

\* hasFailed as it would be if the lookup never found the unit
hasFailed_neverFound(p, session, subject, unit) == FALSE

hasFailed(p, session, subject, unit) ==
  Key(session, subject, unit) \in p.failed

\* isSessionCompleted as it would be if the lookup never found the session
isSessionCompleted_neverFound(p, session) == FALSE

isSessionCompleted(p, session) == session \in p.completedSessions

markSessionAsCompleted(p, session) ==
  IF session \in p.completedSessions
    THEN p
    ELSE [p EXCEPT !.completedSessions = @ \cup {session},
                   !.stats.completedSessions = @ + 1]

\* markAsCompleted as it would be without stats.completedUnits++
markAsCompleted_noCount(p, session, subject, unit) ==
  [p EXCEPT !.completed = @ \cup {Key(session, subject, unit)}]

markAsCompleted(p, session, subject, unit) ==
  IF Key(session, subject, unit) \in p.completed
    THEN p
    ELSE [p EXCEPT !.completed = @ \cup {Key(session, subject, unit)},
                   !.stats.completedUnits = @ + 1]

\* markAsFailed as it would be without the includes() test before the push
markAsFailed_alwaysPushes(p, session, subject, unit) ==
  [p EXCEPT !.failed = @ \cup {Key(session, subject, unit)},
            !.stats.failedUnits = @ + 1]

markAsFailed(p, session, subject, unit) ==
  IF Key(session, subject, unit) \in p.failed
    THEN p
    ELSE [p EXCEPT !.failed = @ \cup {Key(session, subject, unit)},
                   !.stats.failedUnits = @ + 1]

updateStats(p, totalSessions, totalSubjects, totalUnits) ==
  [p EXCEPT !.stats.totalSessions = totalSessions,
            !.stats.totalSubjects = totalSubjects,
            !.stats.totalUnits = totalUnits]

getSummary(p) == p.stats

(* ------------------------------ the state ------------------------------ *)
VARIABLES
  site,       \* subject label -> its unit listing on the source site
  file,       \* the ledger file progress.json
  artifacts,  \* units that have an artifact file in the raw tree
  progress,   \* tracker.progress of the running process
  pc,         \* where the running process is
  saveSite,   \* the tracker.save() call that is writing
  run,        \* how many times the process was started
  faults,     \* environment faults so far
  si, sj, uk, \* positions of the session, subject and unit loops
  totalSubjects,
  sessionTotalUnits, sessionProcessedUnits,
  processedUnits,
  h,          \* history of the run, read by the properties only
  \* the entry point and the subject filter
  argv,           \* process.argv after the script path
  subjectFilter,  \* const subjectFilter of main
  globalFILTER_SUBJECTS,  \* global.FILTER_SUBJECTS
  subjects,       \* the subject links listed for the session
  retained,       \* subjects.filter(...) as far as it has got
  fi,             \* position of the filter in subjects
  mainPc,         \* where main is
  \* organizeData, for one session folder of the raw tree
  rawTree,        \* the entries of the session folder, in readdir order
  target,         \* the folders and the files of the target session folder
  totalFiles, duplicates,   \* the totals organizeData reports
  subjectGroups,  \* the groups, in the order Object.entries gives them
  gi, vi, fk,     \* positions in the groups, the variants, the files
  files,          \* const files of the variant loop: what readdir listed
  targetSubjectPath,        \* the folder the group in hand is copied to
  processedUnitCodes, processedFiles, duplicatesFound,
  orgPc,          \* where organizeData is
  \* the pure functions, called on their own
  call,           \* the function called and its argument
  returned        \* the values it returned, call after call

disk == <<file, artifacts>>
locals == <<si, sj, uk, totalSubjects, sessionTotalUnits,
            sessionProcessedUnits, processedUnits>>
scraperVars == <<site, file, artifacts, progress, pc, saveSite, run, faults,
                 si, sj, uk, totalSubjects, sessionTotalUnits,
                 sessionProcessedUnits, processedUnits, h>>
filterVars == <<argv, subjectFilter, globalFILTER_SUBJECTS, subjects,
                retained, fi, mainPc>>
mergeVars == <<rawTree, target, totalFiles, duplicates, subjectGroups,
               gi, vi, fk, files, targetSubjectPath, processedUnitCodes,
               processedFiles, duplicatesFound, orgPc>>
parserVars == <<call, returned>>
vars == <<scraperVars, filterVars, mergeVars, parserVars>>

\* the session labels that pass the month-and-year test, in listing order
validSessions == SelectSeq(site.sessionsList, isSessionLabel)

\* let totalUnits = 0 of scrapeSeries: no statement assigns it again
totalUnits == 0

session == validSessions[si]
subject == filteredSubjects(session)[sj]
units == site[subject]
unit == units[uk]

\* What the properties need to remember of a behaviour.  Of the run in
\* progress: what kind of file initialize() read and the ledger sets it
\* loaded, the units processUnit was invoked for, those it was invoked for
\* more than once, the units skipped on the ledger's word, the units whose
\* processUnit threw or returned false, the units listed, the sessions and
\* subjects the driver was asked to select, the subjects whose processSubject
\* threw, the sessions whose iteration ended in the session's catch, whether a
\* ledger write raised, whether the selection of a session or of a subject
\* threw.  Across runs: how many runs in a row, up to the one in progress,
\* ended with the summary and without a selection that threw, and how many
\* of them also without a ledger write that raised; the units loaded as
\* failed by some run, the sets of the last ledger write that completed, and
\* how the previous run ended, with its counters, its attempted units and the
\* sets that had been written when it ended.
FreshHistory ==
  [startKind |-> "none", startCompleted |-> {}, startFailed |-> {},
   startSessions |-> {},
   attempted |-> {}, reattempted |-> {}, skipped |-> {}, threw |-> {},
   returnedFalse |-> {},
   discovered |-> {}, navigated |-> {}, subjVisited |-> {}, subjErr |-> {},
   sessErr |-> {}, saveErr |-> FALSE, selErr |-> FALSE,
   completeRuns |-> 0, quietRuns |-> 0,
   decidedFailed |-> {},
   everSaved |-> FALSE, savedCompleted |-> {}, savedFailed |-> {},
   prevEnd |-> "none", prevStats |-> ZeroStats, prevAttempted |-> {},
   prevSavedCompleted |-> {}, prevSavedFailed |-> {}]

\* the history after processUnit was invoked for k
Invoked(hist, k) ==
  [hist EXCEPT !.attempted = @ \cup {k},
               !.reattempted = IF k \in hist.attempted THEN @ \cup {k} ELSE @]

\* main and the filter before they are started
FilterIdle ==
  /\ argv = <<>>
  /\ subjectFilter = Null
  /\ globalFILTER_SUBJECTS = Null
  /\ subjects = <<>>
  /\ retained = <<>>
  /\ fi = 1
  /\ mainPc = "idle"

\* organizeData before it is started
MergeIdle ==
  /\ rawTree = <<>>
  /\ target = [dirs |-> {}, files |-> {}, partial |-> {}, copied |-> {}]
  /\ totalFiles = 0 /\ duplicates = 0
  /\ subjectGroups = <<>>
  /\ gi = 1 /\ vi = 1 /\ fk = 1
  /\ files = <<>>
  /\ targetSubjectPath = <<>>
  /\ processedUnitCodes = {}
  /\ processedFiles = 0 /\ duplicatesFound = 0
  /\ orgPc = "idle"

\* no function called
ParserIdle ==
  /\ call = [fn |-> "none", arg |-> <<>>]
  /\ returned = <<>>

Init ==
  /\ FilterIdle
  /\ MergeIdle
  /\ ParserIdle
  /\ site \in Sites
  /\ file \in {Content("missing"), Content("badjson"), Content("null"),
               Content("nostats")}
  /\ artifacts = {}
  /\ progress = FreshProgress
  /\ pc = "init"
  /\ saveSite = "none"
  /\ run = 1
  /\ faults = 0
  /\ si = 1 /\ sj = 1 /\ uk = 1
  /\ totalSubjects = 0
  /\ sessionTotalUnits = 0 /\ sessionProcessedUnits = 0
  /\ processedUnits = 0
  /\ h = FreshHistory

Fault == faults < MaxFaults /\ faults' = faults + 1

(* ------------------------- ProgressTracker I/O ------------------------- *)
\* initialize(): a ledger document is taken as it is; a missing file or one
\* that does not parse throws before this.progress is assigned; null or an
\* object without stats is assigned and then throws at .completedSessions /
\* .stats.completedSessions.  Every throw ends in the catch, which calls
\* save(); on null, save() itself throws at this.progress.lastUpdate before
\* it writes, and the rejection ends the run.
initialize ==
  /\ pc = "init"
  /\ IF file.kind = "ledger"
       THEN /\ progress' = file
            /\ pc' = "start"
            /\ saveSite' = saveSite
            /\ h' = [h EXCEPT !.startKind = file.kind,
                              !.startCompleted = file.completed,
                              !.startFailed = file.failed,
                              !.startSessions = file.completedSessions,
                              !.decidedFailed = @ \cup file.failed]
       ELSE /\ progress' = IF file.kind \in {"null", "nostats"}
                             THEN Content(file.kind)
                             ELSE progress
            /\ pc' = IF file.kind = "null" THEN "aborted" ELSE "save"
            /\ saveSite' = "initialize"
            /\ h' = [h EXCEPT !.startKind = file.kind]
  /\ UNCHANGED <<mergeVars, filterVars, parserVars>>
  /\ UNCHANGED <<site, disk, run, faults, locals>>

\* where the caller goes on when the save() at a call site has returned
AfterSave(s) ==
  CASE s = "initialize" -> "start"
    [] s = "sessionsCounted" -> "sessLoop"
    [] s = "subjectsCounted" -> "subjLoop"
    [] s = "unitsCounted" -> "unitsListed"
    [] s = "unitCaught" -> "unitCaught"
    [] s = "noResult" -> "unitFalse"
    [] s = "unitCompleted" -> "unitTrue"
    [] s = "sessionCompleted" -> "sessEnd"
    [] s = "final" -> "done"

\* fs.writeFile opens the file with flag 'w', which truncates it, and then
\* writes the document: until the write has finished the file holds a
\* prefix of the document, which does not parse.
SaveTruncate ==
  /\ pc = "save"
  /\ file' = Content("badjson")
  /\ pc' = "writing"
  /\ UNCHANGED <<mergeVars, filterVars, parserVars>>
  /\ UNCHANGED <<site, artifacts, progress, saveSite, run, faults, locals, h>>

SaveComplete ==
  /\ pc = "writing"
  /\ file' = progress
  /\ pc' = AfterSave(saveSite)
  /\ h' = [h EXCEPT !.everSaved = TRUE,
                    !.savedCompleted = progress.completed,
                    !.savedFailed = progress.failed]
  /\ UNCHANGED <<mergeVars, filterVars, parserVars>>
  /\ UNCHANGED <<site, artifacts, progress, saveSite, run, faults, locals>>

\* fs.writeFile rejects, before or after it truncated the file.  The error
\* goes to the nearest enclosing catch of the call site: none in initialize
\* and around the first and the last save of scrapeSeries (the run ends with
\* exit status 1); the session's catch; the subject's catch in the session
\* loop; the unit's catch in processSubject, which marks the unit failed and
\* saves again.
SaveRaises ==
  /\ pc \in {"save", "writing"}
  /\ Fault
  /\ h' = [h EXCEPT !.saveErr = TRUE,
                    !.sessErr = IF saveSite \in {"subjectsCounted",
                                                 "sessionCompleted"}
                                  THEN @ \cup {session} ELSE @]
  /\ CASE saveSite \in {"initialize", "sessionsCounted", "final"} ->
            /\ pc' = "aborted"
            /\ UNCHANGED <<progress, saveSite, locals>>
       [] saveSite \in {"subjectsCounted", "sessionCompleted"} ->
            /\ pc' = "sessLoop"
            /\ si' = si + 1
            /\ UNCHANGED <<progress, saveSite, sj, uk, totalSubjects,
                           sessionTotalUnits, sessionProcessedUnits,
                           processedUnits>>
       [] saveSite \in {"unitsCounted", "unitCaught"} ->
            /\ pc' = "subjLoop"
            /\ sj' = sj + 1
            /\ UNCHANGED <<progress, saveSite, si, uk, totalSubjects,
                           sessionTotalUnits, sessionProcessedUnits,
                           processedUnits>>
       [] saveSite \in {"noResult", "unitCompleted"} ->
            /\ progress' = markAsFailed(progress, session, subject, unit)
            /\ pc' = "save"
            /\ saveSite' = "unitCaught"
            /\ UNCHANGED locals
  /\ UNCHANGED <<mergeVars, filterVars, parserVars>>
  /\ UNCHANGED <<site, disk, run>>

(* ----------------------- the process as a whole ------------------------ *)
Stopped == pc \in {"done", "aborted", "crashed"}

\* the process is terminated from outside: what it held in memory is gone
Crash ==
  /\ ~Stopped
  /\ Fault
  /\ pc' = "crashed"
  /\ progress' = FreshProgress
  /\ saveSite' = "none"
  /\ si' = 1 /\ sj' = 1 /\ uk' = 1
  /\ totalSubjects' = 0
  /\ sessionTotalUnits' = 0 /\ sessionProcessedUnits' = 0
  /\ processedUnits' = 0
  /\ UNCHANGED <<mergeVars, filterVars, parserVars>>
  /\ UNCHANGED <<site, disk, run, h>>

\* the process is started again: new ProgressTracker(...), and the locals of
\* scrapeSeries start over
Restart ==
  /\ Stopped
  /\ run < MaxRuns
  /\ run' = run + 1
  /\ pc' = "init"
  /\ progress' = FreshProgress
  /\ saveSite' = "none"
  /\ si' = 1 /\ sj' = 1 /\ uk' = 1
  /\ totalSubjects' = 0
  /\ sessionTotalUnits' = 0 /\ sessionProcessedUnits' = 0
  /\ processedUnits' = 0
  /\ h' = [FreshHistory EXCEPT
             !.decidedFailed = h.decidedFailed,
             !.completeRuns = IF pc = "done" /\ ~h.selErr
                                THEN h.completeRuns + 1 ELSE 0,
             !.quietRuns = IF pc = "done" /\ ~h.selErr /\ ~h.saveErr
                             THEN h.quietRuns + 1 ELSE 0,
             !.everSaved = h.everSaved,
             !.savedCompleted = h.savedCompleted,
             !.savedFailed = h.savedFailed,
             !.prevEnd = pc,
             !.prevStats = progress.stats,
             !.prevAttempted = h.attempted,
             !.prevSavedCompleted = h.savedCompleted,
             !.prevSavedFailed = h.savedFailed]
  /\ UNCHANGED <<mergeVars, filterVars, parserVars>>
  /\ UNCHANGED <<site, disk, faults>>

(* ----------------------------- scrapeSeries ---------------------------- *)
\* DiscoverSessions as it would be without the test of validSessions.length
DiscoverSessions_noLengthTest ==
  /\ pc = "start"
  /\ IF progress.kind = "ledger"
       THEN /\ progress' = updateStats(progress, Len(validSessions), 0, 0)
            /\ pc' = "save"
            /\ saveSite' = "sessionsCounted"
       ELSE /\ pc' = "aborted"
            /\ UNCHANGED <<progress, saveSite>>
  /\ si' = 1
  /\ totalSubjects' = 0
  /\ UNCHANGED <<mergeVars, filterVars, parserVars>>
  /\ UNCHANGED <<site, disk, run, faults, sj, uk, sessionTotalUnits,
                 sessionProcessedUnits, processedUnits, h>>

\* From the browser launch to the first save: the sessions are listed,
\* filtered and counted.  When no label passes the filter scrapeSeries throws
\* "No valid exam sessions found"; updateStats on a progress that has no
\* stats throws a TypeError.  scrapeSeries rethrows either and main turns it
\* into exit status 1.
DiscoverSessions ==
  /\ pc = "start"
  /\ IF Len(validSessions) # 0 /\ progress.kind = "ledger"
       THEN /\ progress' = updateStats(progress, Len(validSessions), 0, 0)
            /\ pc' = "save"
            /\ saveSite' = "sessionsCounted"
       ELSE /\ pc' = "aborted"
            /\ UNCHANGED <<progress, saveSite>>
  /\ si' = 1
  /\ totalSubjects' = 0
  /\ UNCHANGED <<mergeVars, filterVars, parserVars>>
  /\ UNCHANGED <<site, disk, run, faults, sj, uk, sessionTotalUnits,
                 sessionProcessedUnits, processedUnits, h>>

\* a session the ledger flags completed is passed over
SessionSkip ==
  /\ pc = "sessLoop"
  /\ si <= Len(validSessions)
  /\ isSessionCompleted(progress, session)
  /\ si' = si + 1
  /\ UNCHANGED <<mergeVars, filterVars, parserVars>>
  /\ UNCHANGED <<site, disk, progress, pc, saveSite, run, faults, sj, uk,
                 totalSubjects, sessionTotalUnits, sessionProcessedUnits,
                 processedUnits, h>>

\* navigateToSession, the subject listing and its filter, the subject count
NavigateToSession ==
  /\ pc = "sessLoop"
  /\ si <= Len(validSessions)
  /\ ~isSessionCompleted(progress, session)
  /\ totalSubjects' = totalSubjects + Len(filteredSubjects(session))
  /\ progress' = updateStats(progress, Len(validSessions), totalSubjects',
                             totalUnits)
  /\ sessionTotalUnits' = 0
  /\ sessionProcessedUnits' = 0
  /\ sj' = 1
  /\ pc' = "save"
  /\ saveSite' = "subjectsCounted"
  /\ h' = [h EXCEPT !.navigated = @ \cup {session}]
  /\ UNCHANGED <<mergeVars, filterVars, parserVars>>
  /\ UNCHANGED <<site, disk, run, faults, si, uk, processedUnits>>

\* navigateToSession or the subject listing throws: the session's catch logs
\* it and the loop goes to the next session
NavigateToSessionThrows ==
  /\ pc = "sessLoop"
  /\ si <= Len(validSessions)
  /\ ~isSessionCompleted(progress, session)
  /\ Fault
  /\ si' = si + 1
  /\ h' = [h EXCEPT !.navigated = @ \cup {session},
                    !.sessErr = @ \cup {session},
                    !.selErr = TRUE]
  /\ UNCHANGED <<mergeVars, filterVars, parserVars>>
  /\ UNCHANGED <<site, disk, progress, pc, saveSite, run, sj, uk,
                 totalSubjects, sessionTotalUnits, sessionProcessedUnits,
                 processedUnits>>

\* the session loop is over: the final save
FinalSave ==
  /\ pc = "sessLoop"
  /\ si > Len(validSessions)
  /\ pc' = "save"
  /\ saveSite' = "final"
  /\ UNCHANGED <<mergeVars, filterVars, parserVars>>
  /\ UNCHANGED <<site, disk, progress, run, faults, locals, h>>

\* after the subjects of a session: flag the session when every unit the
\* subjects returned was counted as processed
SessionCheck ==
  /\ pc = "subjLoop"
  /\ sj > Len(filteredSubjects(session))
  /\ IF sessionTotalUnits > 0 /\ sessionProcessedUnits = sessionTotalUnits
       THEN /\ progress' = markSessionAsCompleted(progress, session)
            /\ pc' = "save"
            /\ saveSite' = "sessionCompleted"
       ELSE /\ pc' = "sessEnd"
            /\ UNCHANGED <<progress, saveSite>>
  /\ UNCHANGED <<mergeVars, filterVars, parserVars>>
  /\ UNCHANGED <<site, disk, run, faults, locals, h>>

NextSession ==
  /\ pc = "sessEnd"
  /\ pc' = "sessLoop"
  /\ si' = si + 1
  /\ UNCHANGED <<mergeVars, filterVars, parserVars>>
  /\ UNCHANGED <<site, disk, progress, saveSite, run, faults, sj, uk,
                 totalSubjects, sessionTotalUnits, sessionProcessedUnits,
                 processedUnits, h>>

(* ---------------------------- processSubject --------------------------- *)
unitKeys == {Key(session, subject, units[k]) : k \in 1..Len(units)}

\* selectSubject, the unit listing, the unit count
SelectSubject ==
  /\ pc = "subjLoop"
  /\ sj <= Len(filteredSubjects(session))
  /\ progress' = updateStats(progress, getSummary(progress).totalSessions,
                             getSummary(progress).totalSubjects,
                             getSummary(progress).totalUnits + Len(units))
  /\ processedUnits' = 0
  /\ uk' = 1
  /\ pc' = "save"
  /\ saveSite' = "unitsCounted"
  /\ h' = [h EXCEPT !.subjVisited = @ \cup {<<session, sj>>},
                    !.discovered = @ \cup unitKeys]
  /\ UNCHANGED <<mergeVars, filterVars, parserVars>>
  /\ UNCHANGED <<site, disk, run, faults, si, sj, totalSubjects,
                 sessionTotalUnits, sessionProcessedUnits>>

\* SelectSubjectThrows as it would be without the try around processSubject
\* in the session loop: the error reaches the session's catch
SelectSubjectThrows_toSessionCatch ==
  /\ pc = "subjLoop"
  /\ sj <= Len(filteredSubjects(session))
  /\ Fault
  /\ pc' = "sessLoop"
  /\ si' = si + 1
  /\ h' = [h EXCEPT !.subjVisited = @ \cup {<<session, sj>>},
                    !.subjErr = @ \cup {<<session, sj>>},
                    !.selErr = TRUE]
  /\ UNCHANGED <<mergeVars, filterVars, parserVars>>
  /\ UNCHANGED <<site, disk, progress, saveSite, run, sj, uk,
                 totalSubjects, sessionTotalUnits, sessionProcessedUnits,
                 processedUnits>>

\* selectSubject or the unit listing throws: processSubject rethrows, the
\* catch around it in the session loop logs, and the loop goes to the next
\* subject without adding anything to the session's counts
SelectSubjectThrows ==
  /\ pc = "subjLoop"
  /\ sj <= Len(filteredSubjects(session))
  /\ Fault
  /\ sj' = sj + 1
  /\ h' = [h EXCEPT !.subjVisited = @ \cup {<<session, sj>>},
                    !.subjErr = @ \cup {<<session, sj>>},
                    !.selErr = TRUE]
  /\ UNCHANGED <<mergeVars, filterVars, parserVars>>
  /\ UNCHANGED <<site, disk, progress, pc, saveSite, run, si, uk,
                 totalSubjects, sessionTotalUnits, sessionProcessedUnits,
                 processedUnits>>

\* return { totalUnits: 0, processedUnits: 0 } of a subject without units
NoUnits ==
  /\ pc = "unitsListed"
  /\ Len(units) = 0
  /\ pc' = "subjLoop"
  /\ sj' = sj + 1
  /\ UNCHANGED <<mergeVars, filterVars, parserVars>>
  /\ UNCHANGED <<site, disk, progress, saveSite, run, faults, si, uk,
                 totalSubjects, sessionTotalUnits, sessionProcessedUnits,
                 processedUnits, h>>

EnterUnitLoop ==
  /\ pc = "unitsListed"
  /\ Len(units) > 0
  /\ pc' = "unitLoop"
  /\ UNCHANGED <<mergeVars, filterVars, parserVars>>
  /\ UNCHANGED <<site, disk, progress, saveSite, run, faults, locals, h>>

\* a unit the ledger has as completed counts as processed
UnitAlreadyProcessed ==
  /\ pc = "unitLoop"
  /\ uk <= Len(units)
  /\ isCompleted(progress, session, subject, unit)
  /\ processedUnits' = processedUnits + 1
  /\ uk' = uk + 1
  /\ h' = [h EXCEPT !.skipped = @ \cup {Key(session, subject, unit)}]
  /\ UNCHANGED <<mergeVars, filterVars, parserVars>>
  /\ UNCHANGED <<site, disk, progress, pc, saveSite, run, faults, si, sj,
                 totalSubjects, sessionTotalUnits, sessionProcessedUnits>>

\* and so does a unit the ledger has as failed
UnitPreviouslyFailed ==
  /\ pc = "unitLoop"
  /\ uk <= Len(units)
  /\ ~isCompleted(progress, session, subject, unit)
  /\ hasFailed(progress, session, subject, unit)
  /\ processedUnits' = processedUnits + 1
  /\ uk' = uk + 1
  /\ h' = [h EXCEPT !.skipped = @ \cup {Key(session, subject, unit)}]
  /\ UNCHANGED <<mergeVars, filterVars, parserVars>>
  /\ UNCHANGED <<site, disk, progress, pc, saveSite, run, faults, si, sj,
                 totalSubjects, sessionTotalUnits, sessionProcessedUnits>>

\* processUnit is called for the unit the loop is at
Undecided ==
  /\ pc = "unitLoop"
  /\ uk <= Len(units)
  /\ ~isCompleted(progress, session, subject, unit)
  /\ ~hasFailed(progress, session, subject, unit)

\* return { totalUnits: units.length, processedUnits }, added to the session
SubjectReturn ==
  /\ pc = "unitLoop"
  /\ uk > Len(units)
  /\ sessionTotalUnits' = sessionTotalUnits + Len(units)
  /\ sessionProcessedUnits' = sessionProcessedUnits + processedUnits
  /\ pc' = "subjLoop"
  /\ sj' = sj + 1
  /\ UNCHANGED <<mergeVars, filterVars, parserVars>>
  /\ UNCHANGED <<site, disk, progress, saveSite, run, faults, si, uk,
                 totalSubjects, processedUnits, h>>

(* ----------------------------- processUnit ----------------------------- *)
\* UnitThrows as it would be without the try inside the unit loop: the error
\* leaves processSubject and the loop goes to the next subject
UnitThrows_toSubjectCatch ==
  /\ Undecided
  /\ Fault
  /\ pc' = "subjLoop"
  /\ sj' = sj + 1
  /\ h' = [Invoked(h, Key(session, subject, unit)) EXCEPT
             !.threw = @ \cup {Key(session, subject, unit)}]
  /\ UNCHANGED <<mergeVars, filterVars, parserVars>>
  /\ UNCHANGED <<site, disk, progress, saveSite, run, si, uk, totalSubjects,
                 sessionTotalUnits, sessionProcessedUnits, processedUnits>>

\* selectUnit, selectAllScoresTab, extractAllScoresData or saveData throws:
\* processUnit rethrows and the unit's catch in processSubject marks the unit
\* failed and saves
UnitThrows ==
  /\ Undecided
  /\ Fault
  /\ progress' = markAsFailed(progress, session, subject, unit)
  /\ pc' = "save"
  /\ saveSite' = "unitCaught"
  /\ h' = [Invoked(h, Key(session, subject, unit)) EXCEPT
             !.threw = @ \cup {Key(session, subject, unit)}]
  /\ UNCHANGED <<mergeVars, filterVars, parserVars>>
  /\ UNCHANGED <<site, disk, run, locals>>

\* UnitNoResult as it would be if the unit were marked completed
UnitNoResult_marksCompleted ==
  /\ Undecided
  /\ Fault
  /\ progress' = markAsCompleted(progress, session, subject, unit)
  /\ pc' = "save"
  /\ saveSite' = "noResult"
  /\ h' = [Invoked(h, Key(session, subject, unit)) EXCEPT
             !.returnedFalse = @ \cup {Key(session, subject, unit)}]
  /\ UNCHANGED <<mergeVars, filterVars, parserVars>>
  /\ UNCHANGED <<site, disk, run, locals>>

\* the page shows no tabs section, or processData returns no row: the unit
\* is marked failed, the ledger is saved and processUnit returns false
UnitNoResult ==
  /\ Undecided
  /\ Fault
  /\ progress' = markAsFailed(progress, session, subject, unit)
  /\ pc' = "save"
  /\ saveSite' = "noResult"
  /\ h' = [Invoked(h, Key(session, subject, unit)) EXCEPT
             !.returnedFalse = @ \cup {Key(session, subject, unit)}]
  /\ UNCHANGED <<mergeVars, filterVars, parserVars>>
  /\ UNCHANGED <<site, disk, run, locals>>

\* UnitExtracted as it would be if saveData wrote no file
UnitExtracted_noArtifact ==
  /\ Undecided
  /\ progress' = markAsCompleted(progress, session, subject, unit)
  /\ pc' = "save"
  /\ saveSite' = "unitCompleted"
  /\ h' = Invoked(h, Key(session, subject, unit))
  /\ UNCHANGED <<mergeVars, filterVars, parserVars>>
  /\ UNCHANGED <<site, disk, run, faults, locals>>

\* UnitExtracted as it would be without the tracker.save() that follows
\* markAsCompleted
UnitExtracted_noSave ==
  /\ Undecided
  /\ artifacts' = artifacts \cup {Key(session, subject, unit)}
  /\ progress' = markAsCompleted(progress, session, subject, unit)
  /\ pc' = "unitTrue"
  /\ saveSite' = "unitCompleted"
  /\ h' = Invoked(h, Key(session, subject, unit))
  /\ UNCHANGED <<mergeVars, filterVars, parserVars>>
  /\ UNCHANGED <<site, file, run, faults, locals>>

\* rows were extracted: saveData writes the artifact, the unit is marked
\* completed, the ledger is saved
UnitExtracted ==
  /\ Undecided
  /\ artifacts' = artifacts \cup {Key(session, subject, unit)}
  /\ progress' = markAsCompleted(progress, session, subject, unit)
  /\ pc' = "save"
  /\ saveSite' = "unitCompleted"
  /\ h' = Invoked(h, Key(session, subject, unit))
  /\ UNCHANGED <<mergeVars, filterVars, parserVars>>
  /\ UNCHANGED <<site, file, run, faults, locals>>

\* back in the unit loop of processSubject: after the catch
UnitCaught ==
  /\ pc = "unitCaught"
  /\ processedUnits' = processedUnits + 1
  /\ uk' = uk + 1
  /\ pc' = "unitLoop"
  /\ UNCHANGED <<mergeVars, filterVars, parserVars>>
  /\ UNCHANGED <<site, disk, progress, saveSite, run, faults, si, sj,
                 totalSubjects, sessionTotalUnits, sessionProcessedUnits, h>>

\* processUnit returned false
UnitReturnedFalse ==
  /\ pc = "unitFalse"
  /\ uk' = uk + 1
  /\ pc' = "unitLoop"
  /\ UNCHANGED <<mergeVars, filterVars, parserVars>>
  /\ UNCHANGED <<site, disk, progress, saveSite, run, faults, si, sj,
                 totalSubjects, sessionTotalUnits, sessionProcessedUnits,
                 processedUnits, h>>

\* processUnit returned true
UnitReturnedTrue ==
  /\ pc = "unitTrue"
  /\ processedUnits' = processedUnits + 1
  /\ uk' = uk + 1
  /\ pc' = "unitLoop"
  /\ UNCHANGED <<mergeVars, filterVars, parserVars>>
  /\ UNCHANGED <<site, disk, progress, saveSite, run, faults, si, sj,
                 totalSubjects, sessionTotalUnits, sessionProcessedUnits, h>>

(* --------------------------- the specification ------------------------- *)
Next ==
  \/ initialize
  \/ SaveTruncate
  \/ SaveComplete
  \/ SaveRaises
  \/ Crash
  \/ Restart
  \/ DiscoverSessions
  \/ SessionSkip
  \/ NavigateToSession
  \/ NavigateToSessionThrows
  \/ FinalSave
  \/ SessionCheck
  \/ NextSession
  \/ SelectSubject
  \/ SelectSubjectThrows
  \/ NoUnits
  \/ EnterUnitLoop
  \/ UnitAlreadyProcessed
  \/ UnitPreviouslyFailed
  \/ UnitThrows
  \/ UnitNoResult
  \/ UnitExtracted
  \/ UnitCaught
  \/ UnitReturnedFalse
  \/ UnitReturnedTrue
  \/ SubjectReturn

Spec == Init /\ [][Next]_vars

\* the runs in which the process is not ended from outside and every ledger
\* write succeeds: adapter calls still return or raise
NextRun ==
  \/ initialize
  \/ SaveTruncate
  \/ SaveComplete
  \/ Restart
  \/ DiscoverSessions
  \/ SessionSkip
  \/ NavigateToSession
  \/ NavigateToSessionThrows
  \/ FinalSave
  \/ SessionCheck
  \/ NextSession
  \/ SelectSubject
  \/ SelectSubjectThrows
  \/ NoUnits
  \/ EnterUnitLoop
  \/ UnitAlreadyProcessed
  \/ UnitPreviouslyFailed
  \/ UnitThrows
  \/ UnitNoResult
  \/ UnitExtracted
  \/ UnitCaught
  \/ UnitReturnedFalse
  \/ UnitReturnedTrue
  \/ SubjectReturn

\* every awaited call settles and the event loop then runs the continuation:
\* a run that can take a step takes one
SpecRun == Init /\ [][NextRun]_vars /\ WF_vars(NextRun)

(* ------------------- the entry point and the filter ------------------- *)
\* the process before scrapeSeries is called
ScraperIdle ==
  /\ site = [sessionsList |-> <<>>, Physics |-> <<>>, Chemistry |-> <<>>]
  /\ file = Content("missing")
  /\ artifacts = {}
  /\ progress = FreshProgress
  /\ pc = "idle"
  /\ saveSite = "none"
  /\ run = 1
  /\ faults = 0
  /\ si = 1 /\ sj = 1 /\ uk = 1
  /\ totalSubjects = 0
  /\ sessionTotalUnits = 0 /\ sessionProcessedUnits = 0
  /\ processedUnits = 0
  /\ h = FreshHistory

\* the subject listings of a session page
RECURSIVE SubjectListings(_)
SubjectListings(n) ==
  IF n = 0 THEN {<<>>}
  ELSE SubjectListings(n - 1)
         \cup {Append(l, name) :
                 <<l, name>> \in {ln \in SubjectListings(n - 1) \X SubjectNames :
                                    Len(ln[1]) = n - 1}}

InitFilter ==
  /\ ScraperIdle
  /\ MergeIdle
  /\ ParserIdle
  /\ argv \in ArgvChoices
  /\ subjects \in SubjectListings(MaxSubjects)
  /\ subjectFilter = Null
  /\ globalFILTER_SUBJECTS = Null
  /\ retained = <<>>
  /\ fi = 1
  /\ mainPc = "main"

testMode == checkForTestMode(argv)

\* main in test mode: testSingleUnit selects the session, the subject and
\* the unit, extracts the rows and calls saveData, which writes the artifact
\* file of the unit; main returns
testSingleUnit ==
  /\ mainPc = "main"
  /\ testMode.isTest
  /\ artifacts' = artifacts
       \cup {Key(testMode.session, testMode.subject, testMode.unit)}
  /\ mainPc' = "tested"
  /\ UNCHANGED <<mergeVars, parserVars>>
  /\ UNCHANGED <<site, file, progress, pc, saveSite, run, faults, locals, h>>
  /\ UNCHANGED <<argv, subjectFilter, globalFILTER_SUBJECTS,
                 subjects, retained, fi>>

\* a selection throws, or the page of the unit shows no tabs section:
\* testSingleUnit throws the error again and main is rejected
testSingleUnitThrows ==
  /\ mainPc = "main"
  /\ testMode.isTest
  /\ mainPc' = "testRejected"
  /\ UNCHANGED <<mergeVars, scraperVars, parserVars>>
  /\ UNCHANGED <<argv, subjectFilter, globalFILTER_SUBJECTS,
                 subjects, retained, fi>>

\* main up to the call of scrapeSeries: the command line's filter is parsed
\* and, when there is one, stored in global.FILTER_SUBJECTS
main ==
  /\ mainPc = "main"
  /\ ~testMode.isTest
  /\ subjectFilter' = parseSubjectFilter(argv)
  /\ globalFILTER_SUBJECTS' = IF subjectFilter'.null
                                THEN globalFILTER_SUBJECTS
                                ELSE subjectFilter'
  /\ mainPc' = "filter"
  /\ UNCHANGED <<mergeVars, scraperVars, parserVars>>
  /\ UNCHANGED <<argv, subjects, retained, fi>>

\* subjects.filter((subject) => shouldProcessSubject(subject)), one element
FilterSubject ==
  /\ mainPc = "filter"
  /\ fi <= Len(subjects)
  /\ retained' = IF shouldProcessSubject(subjects[fi])
                   THEN Append(retained, subjects[fi])
                   ELSE retained
  /\ fi' = fi + 1
  /\ UNCHANGED <<mergeVars, scraperVars, parserVars>>
  /\ UNCHANGED <<argv, subjectFilter, globalFILTER_SUBJECTS,
                 subjects, mainPc>>

\* the filter has returned filteredSubjects
FilterReturns ==
  /\ mainPc = "filter"
  /\ fi > Len(subjects)
  /\ mainPc' = "filtered"
  /\ UNCHANGED <<mergeVars, scraperVars, parserVars>>
  /\ UNCHANGED <<argv, subjectFilter, globalFILTER_SUBJECTS,
                 subjects, retained, fi>>

NextFilter ==
  \/ testSingleUnit
  \/ testSingleUnitThrows
  \/ main
  \/ FilterSubject
  \/ FilterReturns

SpecFilter == InitFilter /\ [][NextFilter]_vars

(* --------------------------- the merge engine -------------------------- *)
\* the file names a subject folder of the raw tree can hold, in the order
\* readdir lists them
FilePool ==
  <<<<"W", "M", "A", "0", "1", "-", "0", "1", ".", "j", "s", "o", "n">>,
    <<"n", "o", "t", "e", "s", ".", "j", "s", "o", "n">>,
    <<"W", "M", "A", "0", "1", "-", "0", "1", "_", "C", "1", "2", ".", "j", "s", "o", "n">>,
    <<"W", "M", "A", "0", "2", "-", "0", "1", "C", ".", "j", "s", "o", "n">>,
    <<"W", "M", "A", "0", "1", "-", "0", "1", ".", "t", "x", "t">>>>

\* the listings of a subject folder: the files of the pool taken or left
FileListings ==
  {[k \in 1..Cardinality(I) |->
      FilePool[CHOOSE i \in I : Cardinality({j \in I : j < i}) = k - 1]] :
     I \in {J \in SUBSET (1..Len(FilePool)) : Cardinality(J) <= MaxFiles}}

\* the session folders of the raw tree: the names of their entries
SubjectFolders ==
  {<<Further_Mathematics,
     <<"M", "a", "t", "h", "e", "m", "a", "t", "i", "c", "s", "_", "(", "2", "0", "1", "8", ")">>,
     <<"P", "u", "r", "e", "_", "M", "a", "t", "h", "e", "m", "a", "t", "i", "c", "s", "_", "(", "2", "0", "1", "5", ")">>>>,
   <<Mathematics,
     <<"M", "a", "t", "h", "e", "m", "a", "t", "i", "c", "s", "_", "(", "2", "0", "1", "8", ")">>,
     <<"P", "h", "y", "s", "i", "c", "s", "_", "(", "2", "0", "1", "8", ")">>>>,
   <<<<"P", "h", "y", "s", "i", "c", "s">>,
     <<"P", "h", "y", "s", "i", "c", "s", "_", "(", "2", "0", "1", "8", ")">>,
     <<"n", "o", "t", "e", "s", ".", "t", "x", "t">>>>,
   <<Further_Mathematics,
     Pure_Mathematics,
     <<"n", "o", "t", "e", "s", ".", "t", "x", "t">>>>}

\* readdir of an entry of the session folder: a plain file gives ENOTDIR; a
\* folder gives its listing, or ENOENT when it is gone by the time it is
\* read, or EACCES when it may not be read
Errnos == {"ENOENT", "EACCES"}

\* An entry whose name ends in .txt is a plain file, the others are folders.
\* partial holds the files of the folder whose content is being written,
\* writes counts the saveData calls that wrote into the folder, gone holds
\* the files that readdir lists and that are removed before they are copied.
Entry(n, errno, listing) ==
  [name |-> n,
   isDirectory |-> n[Len(n)] # "t",
   errno |-> errno,
   files |-> IF n[Len(n)] # "t" /\ errno = "none" THEN listing ELSE <<>>,
   partial |-> {},
   writes |-> 0,
   gone |-> {}]

\* the session folders whose folders hold the given listings, every folder
\* readable
ReadableTrees(listings) ==
  {[i \in 1..3 |-> Entry(nl[1][i], "none", nl[2][i])] :
     nl \in {x \in SubjectFolders \X (listings \X listings \X listings) :
               \A i \in 1..3 : x[1][i][Len(x[1][i])] = "t" => x[2][i] = <<>>}}

\* the session folders: every folder readable, or the first file of the
\* first folder removed after the folder was listed, or one folder that is
\* not readable
RawTrees(listings) ==
  ReadableTrees(listings)
  \cup
  {[t EXCEPT ![1].gone = {t[1].files[1]}] :
     t \in {u \in ReadableTrees(listings) : Len(u[1].files) > 0}}
  \cup
  {[i \in 1..3 |-> Entry(nl[1][i], IF i = nl[3] THEN nl[4] ELSE "none",
                         nl[2][i])] :
     nl \in {x \in SubjectFolders \X (listings \X listings \X listings)
                     \X (1..3) \X Errnos :
               /\ x[1][x[3]][Len(x[1][x[3]])] # "t"
               /\ \A i \in 1..3 :
                    (x[1][i][Len(x[1][i])] = "t" \/ i = x[3]) => x[2][i] = <<>>}}

\* subjectGroups as the loop over subjects builds it: a group per base name,
\* in the order the base names first come up, each with its variants in
\* listing order
RECURSIVE GroupSubjects(_, _)
GroupSubjects(names, groups) ==
  IF names = <<>> THEN groups
  ELSE LET baseName == getBaseSubjectName(Head(names))
       IN IF \E g \in 1..Len(groups) : groups[g].baseSubject = baseName
            THEN LET g == CHOOSE n \in 1..Len(groups) :
                            groups[n].baseSubject = baseName
                 IN GroupSubjects(Tail(names),
                      [groups EXCEPT ![g].subjectVariants =
                                        Append(@, Head(names))])
            ELSE GroupSubjects(Tail(names),
                   Append(groups, [baseSubject |-> baseName,
                                   subjectVariants |-> <<Head(names)>>]))

InitMerge ==
  /\ ScraperIdle
  /\ FilterIdle
  /\ ParserIdle
  /\ rawTree \in RawTrees(FileListings)
  /\ target = [dirs |-> {}, files |-> {}, partial |-> {}, copied |-> {}]
  /\ totalFiles = 0 /\ duplicates = 0
  /\ subjectGroups = <<>>
  /\ gi = 1 /\ vi = 1 /\ fk = 1
  /\ files = <<>>
  /\ targetSubjectPath = <<>>
  /\ processedUnitCodes = {}
  /\ processedFiles = 0 /\ duplicatesFound = 0
  /\ orgPc = "organizeData"

\* organizeData for the session folder: readdir and the grouping loop
ReadSession ==
  /\ orgPc = "organizeData"
  /\ subjectGroups' =
       GroupSubjects([i \in 1..Len(rawTree) |-> rawTree[i].name], <<>>)
  /\ gi' = 1
  /\ orgPc' = "groups"
  /\ UNCHANGED <<scraperVars, filterVars, parserVars>>
  /\ UNCHANGED <<rawTree, target, totalFiles, duplicates, vi, fk, files,
                 targetSubjectPath, processedUnitCodes, processedFiles,
                 duplicatesFound>>

group == subjectGroups[gi]

\* a group with a variant that isMathSubject: processMathSubjects is called
\* and makes the Mathematics folder
processMathSubjects ==
  /\ orgPc = "groups"
  /\ gi <= Len(subjectGroups)
  /\ \E v \in 1..Len(group.subjectVariants) :
       isMathSubject(group.subjectVariants[v])
  /\ targetSubjectPath' = Mathematics
  /\ target' = [target EXCEPT !.dirs = @ \cup {Mathematics}]
  /\ processedUnitCodes' = {}
  /\ processedFiles' = 0 /\ duplicatesFound' = 0
  /\ vi' = 1 /\ fk' = 1
  /\ orgPc' = "variants"
  /\ UNCHANGED <<scraperVars, filterVars, parserVars>>
  /\ UNCHANGED <<rawTree, totalFiles, duplicates, subjectGroups, gi, files>>

\* any other group: processRegularSubjects is called and makes the folder
\* of the base name
processRegularSubjects ==
  /\ orgPc = "groups"
  /\ gi <= Len(subjectGroups)
  /\ ~\E v \in 1..Len(group.subjectVariants) :
        isMathSubject(group.subjectVariants[v])
  /\ targetSubjectPath' = group.baseSubject
  /\ target' = [target EXCEPT !.dirs = @ \cup {group.baseSubject}]
  /\ processedUnitCodes' = {}
  /\ processedFiles' = 0 /\ duplicatesFound' = 0
  /\ vi' = 1 /\ fk' = 1
  /\ orgPc' = "variants"
  /\ UNCHANGED <<scraperVars, filterVars, parserVars>>
  /\ UNCHANGED <<rawTree, totalFiles, duplicates, subjectGroups, gi, files>>

\* The loops of processMathSubjects and of processRegularSubjects are the
\* same statements, over the variants of the group and the files of a variant.
variantIndex ==
  CHOOSE i \in 1..Len(rawTree) : rawTree[i].name = group.subjectVariants[vi]

variant == rawTree[variantIndex]

AtVariant ==
  /\ orgPc = "variants"
  /\ vi <= Len(group.subjectVariants)

\* const files = await fs.readdir(subjectPath)
ReadVariant ==
  /\ AtVariant
  /\ variant.isDirectory
  /\ variant.errno = "none"
  /\ files' = variant.files
  /\ fk' = 1
  /\ orgPc' = "files"
  /\ UNCHANGED <<scraperVars, filterVars, parserVars>>
  /\ UNCHANGED <<rawTree, target, totalFiles, duplicates, subjectGroups, gi,
                 vi, targetSubjectPath, processedUnitCodes, processedFiles,
                 duplicatesFound>>

\* VariantUnreadable as it would be if the catch rethrew every error
VariantUnreadable_rethrows ==
  /\ AtVariant
  /\ ~variant.isDirectory \/ variant.errno = "ENOENT"
  /\ orgPc' = "raised"
  /\ UNCHANGED <<scraperVars, filterVars, parserVars>>
  /\ UNCHANGED <<rawTree, target, totalFiles, duplicates, subjectGroups, gi,
                 vi, fk, files, targetSubjectPath, processedUnitCodes,
                 processedFiles, duplicatesFound>>

\* readdir throws ENOTDIR or ENOENT: a warning, and the next variant
VariantUnreadable ==
  /\ AtVariant
  /\ ~variant.isDirectory \/ variant.errno = "ENOENT"
  /\ vi' = vi + 1
  /\ UNCHANGED <<scraperVars, filterVars, parserVars>>
  /\ UNCHANGED <<rawTree, target, totalFiles, duplicates, subjectGroups, gi,
                 fk, files, targetSubjectPath, processedUnitCodes,
                 processedFiles, duplicatesFound, orgPc>>

\* readdir throws another error: the catch of the variant loop throws it
\* again, and so does the catch of organizeData
VariantReadRaises ==
  /\ AtVariant
  /\ variant.isDirectory
  /\ variant.errno \notin {"none", "ENOENT"}
  /\ orgPc' = "raised"
  /\ UNCHANGED <<scraperVars, filterVars, parserVars>>
  /\ UNCHANGED <<rawTree, target, totalFiles, duplicates, subjectGroups, gi,
                 vi, fk, files, targetSubjectPath, processedUnitCodes,
                 processedFiles, duplicatesFound>>

AtFile == orgPc = "files" /\ fk <= Len(files)

\* a file that does not end in .json is passed over
SkipOtherFile ==
  /\ AtFile
  /\ ~endsWithJson(files[fk])
  /\ fk' = fk + 1
  /\ UNCHANGED <<scraperVars, filterVars, parserVars>>
  /\ UNCHANGED <<rawTree, target, totalFiles, duplicates, subjectGroups, gi,
                 vi, files, targetSubjectPath, processedUnitCodes,
                 processedFiles, duplicatesFound, orgPc>>

\* a copy that was made: the place of the file in the group and its name
Copy(g, v, k, name) == [group |-> g, variant |-> v, index |-> k, name |-> name]

\* SkipUnparsed as it would be if processedFiles++ came before the test of
\* the unit code
SkipUnparsed_counts ==
  /\ AtFile
  /\ endsWithJson(files[fk])
  /\ parseUnitCode(files[fk]) = NoCode
  /\ processedFiles' = processedFiles + 1
  /\ fk' = fk + 1
  /\ UNCHANGED <<scraperVars, filterVars, parserVars>>
  /\ UNCHANGED <<rawTree, target, totalFiles, duplicates, subjectGroups, gi,
                 vi, files, targetSubjectPath, processedUnitCodes,
                 duplicatesFound, orgPc>>

\* so is, with a warning, a file whose name gives no unit code
SkipUnparsed ==
  /\ AtFile
  /\ endsWithJson(files[fk])
  /\ parseUnitCode(files[fk]) = NoCode
  /\ fk' = fk + 1
  /\ UNCHANGED <<scraperVars, filterVars, parserVars>>
  /\ UNCHANGED <<rawTree, target, totalFiles, duplicates, subjectGroups, gi,
                 vi, files, targetSubjectPath, processedUnitCodes,
                 processedFiles, duplicatesFound, orgPc>>

\* SkipDuplicate as it would be without its continue: the duplicate is
\* counted and copied
SkipDuplicate_copies ==
  /\ AtFile
  /\ endsWithJson(files[fk])
  /\ parseUnitCode(files[fk]) # NoCode
  /\ parseUnitCode(files[fk]) \in processedUnitCodes
  /\ processedFiles' = processedFiles + 1
  /\ duplicatesFound' = duplicatesFound + 1
  /\ target' = [target EXCEPT
                  !.files = @ \cup {<<targetSubjectPath, files[fk]>>},
                  !.copied = @ \cup {Copy(gi, vi, fk, files[fk])}]
  /\ fk' = fk + 1
  /\ UNCHANGED <<scraperVars, filterVars, parserVars>>
  /\ UNCHANGED <<rawTree, totalFiles, duplicates, subjectGroups, gi, vi,
                 files, targetSubjectPath, processedUnitCodes, orgPc>>

\* a unit code this call has already copied: counted as a duplicate
SkipDuplicate ==
  /\ AtFile
  /\ endsWithJson(files[fk])
  /\ parseUnitCode(files[fk]) # NoCode
  /\ parseUnitCode(files[fk]) \in processedUnitCodes
  /\ processedFiles' = processedFiles + 1
  /\ duplicatesFound' = duplicatesFound + 1
  /\ fk' = fk + 1
  /\ UNCHANGED <<scraperVars, filterVars, parserVars>>
  /\ UNCHANGED <<rawTree, target, totalFiles, duplicates, subjectGroups, gi,
                 vi, files, targetSubjectPath, processedUnitCodes, orgPc>>

\* CopyFile as it would be if the file were moved: fs.rename in the place of
\* fs.copyFile
CopyFile_renames ==
  /\ AtFile
  /\ endsWithJson(files[fk])
  /\ parseUnitCode(files[fk]) # NoCode
  /\ parseUnitCode(files[fk]) \notin processedUnitCodes
  /\ files[fk] \notin variant.gone
  /\ processedFiles' = processedFiles + 1
  /\ processedUnitCodes' =
       processedUnitCodes \cup {parseUnitCode(files[fk])}
  /\ target' = [target EXCEPT
                  !.files = @ \cup {<<targetSubjectPath, files[fk]>>},
                  !.copied = @ \cup {Copy(gi, vi, fk, files[fk])}]
  /\ rawTree' = [rawTree EXCEPT
                   ![variantIndex].files = SelectSeq(@, LAMBDA f : f # files[fk])]
  /\ fk' = fk + 1
  /\ UNCHANGED <<scraperVars, filterVars, parserVars>>
  /\ UNCHANGED <<totalFiles, duplicates, subjectGroups, gi, vi, files,
                 targetSubjectPath, duplicatesFound, orgPc>>

\* a new unit code: fs.copyFile copies the file as it is at that moment,
\* under its own name, to the target folder, where it replaces a file of
\* that name
CopyFile ==
  /\ AtFile
  /\ endsWithJson(files[fk])
  /\ parseUnitCode(files[fk]) # NoCode
  /\ parseUnitCode(files[fk]) \notin processedUnitCodes
  /\ files[fk] \notin variant.gone
  /\ processedFiles' = processedFiles + 1
  /\ processedUnitCodes' =
       processedUnitCodes \cup {parseUnitCode(files[fk])}
  /\ target' = [target EXCEPT
                  !.files = @ \cup {<<targetSubjectPath, files[fk]>>},
                  !.partial = IF files[fk] \in variant.partial
                                THEN @ \cup {<<targetSubjectPath, files[fk]>>}
                                ELSE @ \ {<<targetSubjectPath, files[fk]>>},
                  !.copied = @ \cup {Copy(gi, vi, fk, files[fk])}]
  /\ fk' = fk + 1
  /\ UNCHANGED <<scraperVars, filterVars, parserVars>>
  /\ UNCHANGED <<rawTree, totalFiles, duplicates, subjectGroups, gi, vi,
                 files, targetSubjectPath, duplicatesFound, orgPc>>

\* a new unit code whose file is gone: the unit code is already in the set
\* and in the count when fs.copyFile throws ENOENT, which the catch of the
\* variant loop takes for an unreadable folder: a warning, and the next
\* variant
CopyFileVanished ==
  /\ AtFile
  /\ endsWithJson(files[fk])
  /\ parseUnitCode(files[fk]) # NoCode
  /\ parseUnitCode(files[fk]) \notin processedUnitCodes
  /\ files[fk] \in variant.gone
  /\ processedFiles' = processedFiles + 1
  /\ processedUnitCodes' =
       processedUnitCodes \cup {parseUnitCode(files[fk])}
  /\ vi' = vi + 1
  /\ orgPc' = "variants"
  /\ UNCHANGED <<scraperVars, filterVars, parserVars>>
  /\ UNCHANGED <<rawTree, target, totalFiles, duplicates, subjectGroups, gi,
                 fk, files, targetSubjectPath, duplicatesFound>>

\* the files of the variant are done
NextVariant ==
  /\ orgPc = "files"
  /\ fk > Len(files)
  /\ vi' = vi + 1
  /\ orgPc' = "variants"
  /\ UNCHANGED <<scraperVars, filterVars, parserVars>>
  /\ UNCHANGED <<rawTree, target, totalFiles, duplicates, subjectGroups, gi,
                 fk, files, targetSubjectPath, processedUnitCodes,
                 processedFiles, duplicatesFound>>

\* return { processedFiles, duplicatesFound }, added to the totals
GroupReturns ==
  /\ orgPc = "variants"
  /\ vi > Len(group.subjectVariants)
  /\ totalFiles' = totalFiles + processedFiles
  /\ duplicates' = duplicates + duplicatesFound
  /\ gi' = gi + 1
  /\ orgPc' = "groups"
  /\ UNCHANGED <<scraperVars, filterVars, parserVars>>
  /\ UNCHANGED <<rawTree, target, subjectGroups, vi, fk, files,
                 targetSubjectPath, processedUnitCodes, processedFiles,
                 duplicatesFound>>

\* the groups are done: the totals are reported
organizeData ==
  /\ orgPc = "groups"
  /\ gi > Len(subjectGroups)
  /\ orgPc' = "organized"
  /\ UNCHANGED <<scraperVars, filterVars, parserVars>>
  /\ UNCHANGED <<rawTree, target, totalFiles, duplicates, subjectGroups, gi,
                 vi, fk, files, targetSubjectPath, processedUnitCodes,
                 processedFiles, duplicatesFound>>

NextMerge ==
  \/ ReadSession
  \/ processMathSubjects
  \/ processRegularSubjects
  \/ ReadVariant
  \/ VariantUnreadable
  \/ VariantReadRaises
  \/ SkipOtherFile
  \/ SkipUnparsed
  \/ SkipDuplicate
  \/ CopyFile
  \/ CopyFileVanished
  \/ NextVariant
  \/ GroupReturns
  \/ organizeData

SpecMerge == InitMerge /\ [][NextMerge]_vars

(* ------------------ the pure functions on their own ------------------- *)
\* the pieces the subject names and the file names are made of
NameTokens ==
  {<<"A">>, <<"_">>, <<" ">>,
   <<"(", "2", "0", "1", "8", ")">>,
   <<"(", "2", "0">>,
   <<"1", "8", ")">>,
   <<"(", "2", "0", "1", ")">>}

FileTokens ==
  {<<"W", "M", "A">>, <<"W">>, <<"0", "2">>, <<"2">>,
   <<"-", "0", "1">>, <<"-">>, <<"C">>,
   <<"_", "s", "o", "m", "e", "t", "h", "i", "n", "g", ".", "j", "s", "o", "n">>}

readme_txt == <<"r", "e", "a", "d", "m", "e", ".", "t", "x", "t">>

RECURSIVE Concat(_)
Concat(pieces) ==
  IF pieces = <<>> THEN <<>> ELSE Head(pieces) \o Concat(Tail(pieces))

\* the strings of at most n tokens
TokenStrings(tokens, n) ==
  {Concat(q) : q \in UNION {[1..k -> tokens] : k \in 0..n}}

WMA02_01C_something_json ==
  <<"W", "M", "A", "0", "2", "-", "0", "1", "C",
    "_", "s", "o", "m", "e", "t", "h", "i", "n", "g", ".", "j", "s", "o", "n">>

\* the calls: a function and a string of at most n tokens, or one of the two
\* file names WMA02-01C_something.json and readme.txt
ParserCalls(n) ==
  {[fn |-> "getBaseSubjectName", arg |-> str] :
     str \in TokenStrings(NameTokens, n)}
  \cup
  {[fn |-> "parseUnitCode", arg |-> str] :
     str \in TokenStrings(FileTokens, n)
               \cup {WMA02_01C_something_json, readme_txt}}

InitParser ==
  /\ ScraperIdle
  /\ FilterIdle
  /\ MergeIdle
  /\ call \in ParserCalls(MaxTokens)
  /\ returned = <<>>

\* getBaseSubjectName(subject), and then getBaseSubjectName of what it
\* returned
CallGetBaseSubjectName ==
  /\ call.fn = "getBaseSubjectName"
  /\ Len(returned) < 2
  /\ returned' =
       Append(returned,
              getBaseSubjectName(IF returned = <<>> THEN call.arg
                                 ELSE returned[Len(returned)]))
  /\ UNCHANGED <<scraperVars, filterVars, mergeVars, call>>

\* parseUnitCode(file)
CallParseUnitCode ==
  /\ call.fn = "parseUnitCode"
  /\ returned = <<>>
  /\ returned' = <<parseUnitCode(call.arg)>>
  /\ UNCHANGED <<scraperVars, filterVars, mergeVars, call>>

NextParser == CallGetBaseSubjectName \/ CallParseUnitCode

SpecParser == InitParser /\ [][NextParser]_vars

(* ------------- a merge while an Orchestrator run goes on -------------- *)
\* the saveData calls that have written into the session folder
RECURSIVE Writes(_)
Writes(n) == IF n = 0 THEN 0 ELSE rawTree[n].writes + Writes(n - 1)

\* the .json files of an entry
JsonFiles(entry) ==
  {k \in 1..Len(entry.files) : endsWithJson(entry.files[k])}

\* the session folders the merge starts from: those of trees with at most
\* one file in all
ConcurrentTrees(trees) ==
  {t \in trees :
     \A i, j \in 1..Len(t) :
       /\ Len(t[i].files) <= 1
       /\ (i # j /\ t[i].files # <<>>) => t[j].files = <<>>}

InitConcurrent ==
  /\ ScraperIdle
  /\ FilterIdle
  /\ ParserIdle
  /\ rawTree \in ConcurrentTrees(RawTrees(FileListings))
  /\ target = [dirs |-> {}, files |-> {}, partial |-> {}, copied |-> {}]
  /\ totalFiles = 0 /\ duplicates = 0
  /\ subjectGroups = <<>>
  /\ gi = 1 /\ vi = 1 /\ fk = 1
  /\ files = <<>>
  /\ targetSubjectPath = <<>>
  /\ processedUnitCodes = {}
  /\ processedFiles = 0 /\ duplicatesFound = 0
  /\ orgPc = "organizeData"

\* saveData of the Orchestrator run: fs.writeFile opens the artifact file of
\* a unit in a subject folder, which makes the file, empty, or empties the
\* one that is there; the content follows.  One saveData call at a time.
saveDataOpens ==
  /\ Writes(Len(rawTree)) < MaxWrites
  /\ \A i \in 1..Len(rawTree) : rawTree[i].partial = {}
  /\ \E i \in 1..Len(rawTree) : \E k \in 1..Len(FilePool) :
       /\ rawTree[i].isDirectory
       /\ rawTree[i].errno = "none"
       /\ endsWithJson(FilePool[k])
       /\ rawTree' =
            [rawTree EXCEPT
               ![i].files = IF \E n \in 1..Len(@) : @[n] = FilePool[k]
                              THEN @ ELSE Append(@, FilePool[k]),
               ![i].partial = @ \cup {FilePool[k]},
               ![i].writes = @ + 1]
  /\ UNCHANGED <<scraperVars, filterVars, parserVars>>
  /\ UNCHANGED <<target, totalFiles, duplicates, subjectGroups, gi, vi, fk,
                 files, targetSubjectPath, processedUnitCodes,
                 processedFiles, duplicatesFound, orgPc>>

\* fs.writeFile has written the whole document
saveDataWritten ==
  /\ \E i \in 1..Len(rawTree) : \E f \in rawTree[i].partial :
       rawTree' = [rawTree EXCEPT ![i].partial = @ \ {f}]
  /\ UNCHANGED <<scraperVars, filterVars, parserVars>>
  /\ UNCHANGED <<target, totalFiles, duplicates, subjectGroups, gi, vi, fk,
                 files, targetSubjectPath, processedUnitCodes,
                 processedFiles, duplicatesFound, orgPc>>

NextConcurrent ==
  \/ NextMerge
  \/ saveDataOpens
  \/ saveDataWritten

SpecConcurrent == InitConcurrent /\ [][NextConcurrent]_vars

(* ------------------------------ properties ---------------------------- *)
\* every unit the site lists under a session
SessionUnitKeys(s) ==
  {Key(s, filteredSubjects(s)[j], site[filteredSubjects(s)[j]][k]) :
     <<j, k>> \in {jk \in (1..Len(filteredSubjects(s))) \X (1..(MaxUnits + 2)) :
                     jk[2] <= Len(site[filteredSubjects(s)[jk[1]]])}}

\* C1: a unit that is in the completed set the run loaded from the ledger is
\* never handed to processUnit in that run, whatever happens to other units.
C1_CompletedNeverAttempted == h.startCompleted \cap h.attempted = {}

\* a run has loaded a completed unit, reached it in the unit loop and passed
\* over it
C1_Witness == h.startCompleted \cap h.skipped # {}

\* C3 (as claimed): a session is flagged session-completed only if every unit
\* of every retained subject of the session is in the completed or in the
\* failed set.
C3_FlagOnlyAfterFullAccounting ==
  \A s \in progress.completedSessions :
    SessionUnitKeys(s) \subseteq progress.completed \cup progress.failed

\* C4 (as claimed): when the traversal of a session has finished and every
\* unit listed under the session in this run is in the completed or the failed
\* set, at least one unit having been listed, the session is flagged in this
\* run; stated for the runs in which nothing throws, so that units are marked
\* failed only because they showed no tabs section or gave no rows.
C4_FlaggedInSameRun ==
  (pc = "sessEnd" /\ h.threw = {} /\ h.subjErr = {} /\ h.sessErr = {}
     /\ ~h.saveErr) =>
    LET found == {k \in h.discovered : k[1] = session} IN
      (found # {} /\ found \subseteq progress.completed \cup progress.failed)
        => session \in progress.completedSessions

\* C7 (as claimed): once a save() has written the ledger file, the file holds
\* at every instant a complete document that a save() wrote.
C7_SaveAtomic == h.everSaved => file.kind # "badjson"

\* C8 (as claimed): when the ledger file is missing, does not parse, or
\* parses to something that is not a ledger, initialize() returns with a fresh
\* empty ledger in memory and in the file.
C8_FreshAfterBadFile ==
  (pc = "start" /\ h.startKind # "ledger") =>
    (progress = FreshProgress /\ file = FreshProgress)

\* C2 (as claimed): a unit that some run loaded as failed is not handed to
\* processUnit in that run or in any later one, and every later run has it in
\* its failed set once it has loaded the ledger.
C2_FailedNeverRetried ==
  /\ h.decidedFailed \cap h.attempted = {}
  /\ pc \notin {"init", "crashed"} => h.decidedFailed \subseteq progress.failed

\* C5 (as claimed): a run that follows a complete run, no fault occurring in
\* either, asks the driver for no session, subject or unit, and ends with the
\* six counters the first run ended with.
C5_SecondRunIdle ==
  (h.prevEnd = "done" /\ pc = "done" /\ faults = 0) =>
    /\ h.navigated = {} /\ h.subjVisited = {} /\ h.attempted = {}
    /\ progress.stats = h.prevStats

\* C6 (as claimed): after the process was terminated and started again, every
\* unit outcome that had been written to the ledger file is in the loaded
\* ledger and the unit is not attempted again; at most one unit that the
\* terminated run attempted is attempted again.
C6_CrashLosesAtMostOneUnit ==
  (h.prevEnd = "crashed" /\ pc \notin {"init", "crashed"}) =>
    /\ h.prevSavedCompleted \subseteq progress.completed
    /\ h.prevSavedFailed \subseteq progress.failed
    /\ h.attempted \cap (h.prevSavedCompleted \cup h.prevSavedFailed) = {}
    /\ Cardinality(h.attempted \cap h.prevAttempted) <= 1

\* C9: when the adapter throws for a unit, the unit is marked failed and the
\* run is not aborted; and when the unit loop of a subject with N units ends
\* with exactly one of its units having thrown, every unit of the subject was
\* looked at (attempted, or passed over because the ledger had it), every one
\* is in the completed or the failed set, and, no other unit having come back
\* without a result, the subject's count of processed units is N.
C9_UnitErrorIsolated ==
  /\ pc # "crashed" => h.threw \subseteq progress.failed
  /\ (h.threw # {} /\ ~h.saveErr) => pc # "aborted"
  /\ (pc = "unitLoop" /\ uk > Len(units)
        /\ Cardinality(h.threw \cap unitKeys) = 1) =>
       /\ unitKeys \subseteq h.attempted \cup h.skipped
       /\ unitKeys \subseteq progress.completed \cup progress.failed
       /\ h.returnedFalse \cap unitKeys = {} => processedUnits = Len(units)

\* the unit loop of a subject with two units has ended: one unit threw, the
\* other was attempted as well, and both are counted
C9_Witness ==
  /\ pc = "unitLoop" /\ uk > Len(units) /\ Len(units) >= 2
  /\ Cardinality(h.threw \cap unitKeys) = 1
  /\ (unitKeys \cap h.attempted) \ h.threw # {}
  /\ processedUnits = Len(units)

\* C10: when processSubject throws for a subject, every later subject of the
\* same session is still handed to processSubject once the session's turn is
\* over, and the run is not aborted.
C10_SubjectErrorIsolated ==
  /\ (h.subjErr # {} /\ ~h.saveErr) => pc # "aborted"
  /\ \A e \in h.subjErr : \A i \in 1..Len(validSessions) :
       (validSessions[i] = e[1] /\ si > i) =>
         \A j \in (e[2] + 1)..Len(filteredSubjects(e[1])) :
           <<e[1], j>> \in h.subjVisited

\* a run has ended normally in which a subject threw and a later subject of
\* the same session was processed without throwing
C10_Witness ==
  /\ pc = "done"
  /\ \E e \in h.subjErr :
       \E j \in (e[2] + 1)..Len(filteredSubjects(e[1])) :
         <<e[1], j>> \in h.subjVisited \ h.subjErr

\* C11: within one run processUnit is invoked at most once for a (session,
\* subject, unit), also when the unit listing or the subject listing has the
\* same label twice.
C11_AttemptedAtMostOnce == h.reattempted = {}

\* a run invoked processUnit for a unit and then came to the same unit again:
\* at the second occurrence of a label in the unit listing, or under the second
\* occurrence of its subject in the subject listing
C11_Witness ==
  /\ pc = "unitLoop" /\ uk > 1 /\ uk - 1 <= Len(units)
  /\ Key(session, subject, units[uk - 1]) \in h.attempted \cap h.skipped
  /\ \/ uk = 3 /\ units[1] = units[2]
     \/ sj = 2 /\ filteredSubjects(session)[1] = filteredSubjects(session)[2]

\* C12 (as claimed): no unit is in the completed and in the failed set of the
\* ledger at once.
C12_CompletedFailedDisjoint == progress.completed \cap progress.failed = {}

\* C13 (as claimed): within a run, from the first updateStats call on, no step
\* lowers totalSessions, totalSubjects or totalUnits of the ledger; stated
\* for the behaviours without a fault.
C13_TotalsOnlyGrow ==
  [][(run' = run /\ faults' = 0 /\ pc \notin {"init", "start"}) =>
       /\ progress'.stats.totalSessions >= progress.stats.totalSessions
       /\ progress'.stats.totalSubjects >= progress.stats.totalSubjects
       /\ progress'.stats.totalUnits >= progress.stats.totalUnits]_vars

\* the keys the marks are applied with: those of the units the run has
\* listed and those the ledger holds
MarkedKeys == h.discovered \cup progress.completed \cup progress.failed

\* C14: on every ledger the run reaches, each of the three marks, applied to
\* a unit the run has listed or the ledger holds, adds its key and one to its
\* counter when the key is not there and changes nothing when it is, so that
\* applying it twice is the same as applying it once; the two unit counters
\* and the session counter equal the sizes of their sets.
C14_MarksIdempotent ==
  progress.kind = "ledger" =>
    /\ \A k \in MarkedKeys :
         LET c1 == markAsCompleted(progress, k[1], k[2], k[3])
             f1 == markAsFailed(progress, k[1], k[2], k[3])
             s1 == markSessionAsCompleted(progress, k[1])
         IN /\ markAsCompleted(c1, k[1], k[2], k[3]) = c1
            /\ markAsFailed(f1, k[1], k[2], k[3]) = f1
            /\ markSessionAsCompleted(s1, k[1]) = s1
            /\ c1.completed = progress.completed \cup {k}
            /\ f1.failed = progress.failed \cup {k}
            /\ s1.completedSessions = progress.completedSessions \cup {k[1]}
            /\ c1.stats.completedUnits = progress.stats.completedUnits
                 + (IF k \in progress.completed THEN 0 ELSE 1)
            /\ f1.stats.failedUnits = progress.stats.failedUnits
                 + (IF k \in progress.failed THEN 0 ELSE 1)
            /\ s1.stats.completedSessions = progress.stats.completedSessions
                 + (IF k[1] \in progress.completedSessions THEN 0 ELSE 1)
    /\ progress.stats.completedUnits = Cardinality(progress.completed)
    /\ progress.stats.failedUnits = Cardinality(progress.failed)
    /\ progress.stats.completedSessions
         = Cardinality(progress.completedSessions)

\* the run has applied markAsFailed to one unit twice: processUnit marked it
\* failed, its save raised, and the unit's catch marked it again; the failed
\* counter is one
C14_Witness ==
  /\ pc = "save" /\ saveSite = "unitCaught"
  /\ Key(session, subject, unit) \in h.returnedFalse
  /\ progress.failed = {Key(session, subject, unit)}
  /\ progress.stats.failedUnits = 1

\* C15: when no listed session label passes the month-and-year test, the run
\* selects no session and no subject, processes no unit, writes the ledger
\* nowhere but in initialize(), and does not end normally: it ends with the
\* error at the entry point, which exits with status 1.
C15_NoValidSessionFails ==
  Len(validSessions) = 0 =>
    /\ h.navigated = {} /\ h.subjVisited = {} /\ h.attempted = {}
    /\ artifacts = {}
    /\ pc \in {"init", "save", "writing", "start", "aborted", "crashed"}
    /\ pc \in {"save", "writing"} => saveSite = "initialize"

\* the site lists links none of which is a session, initialize() made a fresh
\* ledger without an error, and the run was ended by scrapeSeries' throw
C15_Witness ==
  /\ Len(site.sessionsList) > 0 /\ Len(validSessions) = 0
  /\ pc = "aborted" /\ progress.kind = "ledger" /\ ~h.saveErr
  /\ h.everSaved

\* C16 (as claimed): the subjects retained for a session are exactly the
\* listed subjects whose name contains, letter case aside, a term of the
\* filter given on the command line, and every listed subject when no filter
\* is given.
C16_RetainedMatchCallerFilter ==
  mainPc = "filtered" =>
    LET Wanted(name) ==
          subjectFilter.null \/ matchesFilter(name, subjectFilter.terms)
    IN retained = SelectSeq(subjects, Wanted)

\* C25 (as claimed): when a run in test mode has ended, the raw tree holds
\* no artifact file and the ledger file is as it was.
C25_TestModePersistsNothing ==
  mainPc \in {"tested", "testRejected"} =>
    /\ artifacts = {}
    /\ file = Content("missing")

\* C26 (as claimed): getBaseSubjectName of what getBaseSubjectName returned
\* is what it returned.
C26_BaseNameIdempotent ==
  (call.fn = "getBaseSubjectName" /\ Len(returned) = 2) =>
    returned[2] = returned[1]

\* str is two or three capitals, two digits, then -NN or nothing, then one
\* capital or nothing
MatchesUnitCodePattern(str) ==
  \E n \in {2, 3} : \E d \in {0, 3} : \E l \in {0, 1} :
    /\ Len(str) = n + 2 + d + l
    /\ \A i \in 1..n : isUpperAt(str, i)
    /\ isDigitAt(str, n + 1) /\ isDigitAt(str, n + 2)
    /\ d = 3 => /\ str[n + 3] = "-"
                /\ isDigitAt(str, n + 4) /\ isDigitAt(str, n + 5)
    /\ l = 1 => isUpperAt(str, Len(str))

MatchingPrefixes(str) ==
  {p \in {SubSeq(str, 1, k) : k \in 0..Len(str)} : MatchesUnitCodePattern(p)}

\* C27: parseUnitCode returns the longest prefix of the name that matches the
\* pattern, and not-found when no prefix matches; WMA02-01C for
\* WMA02-01C_something.json and not-found for readme.txt.
C27_ParseUnitCodePrefix ==
  (call.fn = "parseUnitCode" /\ returned # <<>>) =>
    /\ IF MatchingPrefixes(call.arg) = {}
         THEN returned[1] = NoCode
         ELSE /\ returned[1] \in MatchingPrefixes(call.arg)
              /\ \A p \in MatchingPrefixes(call.arg) :
                   Len(p) <= Len(returned[1])
    /\ call.arg = WMA02_01C_something_json =>
         returned[1] = SubSeq(call.arg, 1, 9)
    /\ call.arg = readme_txt => returned[1] = NoCode

\* parseUnitCode has returned for WMA02-01C_something.json
C27_Witness ==
  /\ call.fn = "parseUnitCode"
  /\ call.arg = WMA02_01C_something_json
  /\ returned # <<>>

\* the files of a folder of the target tree
FilesIn(dir) == {df[2] : df \in {x \in target.files : x[1] = dir}}

\* the folder the code copies the files of a raw entry to
RoutedTo(name) ==
  LET g == CHOOSE n \in 1..Len(subjectGroups) :
             \E v \in 1..Len(subjectGroups[n].subjectVariants) :
               subjectGroups[n].subjectVariants[v] = name
  IN IF \E v \in 1..Len(subjectGroups[g].subjectVariants) :
          isMathSubject(subjectGroups[g].subjectVariants[v])
       THEN Mathematics
       ELSE subjectGroups[g].baseSubject

\* the unit codes of the .json files of a raw entry
CodesOf(entry) ==
  {parseUnitCode(entry.files[k]) :
     k \in {n \in 1..Len(entry.files) : endsWithJson(entry.files[n])}}
    \ {NoCode}

\* C17 (as claimed): when organizeData is done, no folder of the target tree
\* holds two files with the same unit code.
C17_OneFilePerCode ==
  orgPc = "organized" =>
    \A dir \in target.dirs : \A f1, f2 \in FilesIn(dir) :
      parseUnitCode(f1) = parseUnitCode(f2) => f1 = f2

WMA01_01 == <<"W", "M", "A", "0", "1", "-", "0", "1">>

\* C18 (as claimed): for the session folder with Further_Mathematics,
\* Mathematics_(2018) and Pure_Mathematics_(2015), each holding one file and
\* that file giving the code WMA01-01, organizeData leaves exactly one
\* WMA01-01 file in Mathematics, none in any other folder, and reports two
\* duplicates.
C18_MathConsolidation ==
  (/\ orgPc = "organized"
   /\ \E i \in 1..Len(rawTree) : rawTree[i].name = Further_Mathematics
   /\ \A i \in 1..Len(rawTree) :
        /\ Len(rawTree[i].files) = 1
        /\ endsWithJson(rawTree[i].files[1])
        /\ parseUnitCode(rawTree[i].files[1]) = WMA01_01) =>
    /\ Cardinality({f \in FilesIn(Mathematics) :
                      parseUnitCode(f) = WMA01_01}) = 1
    /\ \A dir \in target.dirs \ {Mathematics} :
         \A f \in FilesIn(dir) : parseUnitCode(f) # WMA01_01
    /\ duplicates = 2

\* C19 (as claimed): the duplicates organizeData reports are the files it
\* processed less the distinct (folder, unit code) pairs that are in the
\* target tree.
C19_DuplicateCount ==
  orgPc = "organized" =>
    duplicates = totalFiles
      - Cardinality({<<df[1], parseUnitCode(df[2])>> : df \in target.files})

\* C20 (as claimed): when organizeData is done, every folder of the target
\* tree holds as many files as there are distinct unit codes in the .json
\* files of the raw folders whose files go to it.
C20_FilesEqualDistinctCodes ==
  orgPc = "organized" =>
    \A dir \in target.dirs :
      Cardinality(FilesIn(dir)) =
        Cardinality(UNION {CodesOf(rawTree[i]) :
                             i \in {n \in 1..Len(rawTree) :
                                      RoutedTo(rawTree[n].name) = dir}})

\* the files of an entry that give a unit code
CodedFiles(entry) ==
  {k \in JsonFiles(entry) : parseUnitCode(entry.files[k]) # NoCode}

\* C21 (as claimed): for the session folder with Further_Mathematics and
\* Pure_Mathematics, organizeData leaves in Mathematics one file for each
\* unit code the two folders share, and reports as duplicates the files with
\* a unit code of the two folders less their distinct unit codes.
C21_MathFamilySharedSet ==
  (/\ orgPc = "organized"
   /\ rawTree[1].name = Further_Mathematics
   /\ rawTree[2].name = Pure_Mathematics) =>
    /\ \A c \in CodesOf(rawTree[1]) \cap CodesOf(rawTree[2]) :
         Cardinality({f \in FilesIn(Mathematics) : parseUnitCode(f) = c}) = 1
    /\ duplicates =
         Cardinality(CodedFiles(rawTree[1])) + Cardinality(CodedFiles(rawTree[2]))
           - Cardinality(CodesOf(rawTree[1]) \cup CodesOf(rawTree[2]))

\* C22 (as claimed): organizeData does not raise for a variant folder that
\* cannot be read, and when it is done every unit code of every folder that
\* can be read has a file in the folder its group is copied to.
C22_VariantErrorSkipped ==
  /\ orgPc # "raised"
  /\ orgPc = "organized" =>
       \A i \in 1..Len(rawTree) :
         (rawTree[i].isDirectory /\ rawTree[i].errno = "none") =>
           \A c \in CodesOf(rawTree[i]) :
             \E f \in FilesIn(RoutedTo(rawTree[i].name)) :
               parseUnitCode(f) = c

\* C23 (as claimed): while an Orchestrator run writes artifacts into the
\* session folder, no file of the target tree is the copy of an artifact
\* whose content was not yet written.
C23_CopiesAreComplete == target.partial = {}

\* C24: no step of organizeData changes the raw tree, the ledger file or the
\* artifacts.
C24_RawTreeUntouched ==
  [][rawTree' = rawTree /\ file' = file /\ artifacts' = artifacts]_vars

\* organizeData raised after it had copied a file
C24_Witness == orgPc = "raised" /\ target.files # {}

\* the units whose outcome is in the ledger in memory and in no ledger
\* document that was written
Unsaved ==
  (progress.completed \ h.savedCompleted)
    \cup (progress.failed \ h.savedFailed)

\* C28 (as claimed): at no moment of a run are the outcomes of two units held
\* in memory only.
C28_AtMostOneUnsavedOutcome ==
  pc \notin {"init", "crashed"} => Cardinality(Unsaved) <= 1

\* two units were handed to processUnit in this run, a ledger write was
\* rejected, and the traversal is at a unit with every outcome written
C28_Witness ==
  /\ pc = "unitLoop"
  /\ h.saveErr
  /\ Cardinality(h.attempted) >= 2
  /\ Unsaved = {}

\* C29 (as claimed): a ledger document holds the outcome of a unit only after
\* processUnit was invoked for it, in this run or in one whose ledger this
\* run loaded; and when the decision to flag a session is taken, the outcome
\* of every unit of that session is in a ledger document that was written.
C29_WriteBetweenAttemptAndDecision ==
  /\ (pc \notin {"init", "crashed"} /\ file.kind = "ledger") =>
       file.completed \cup file.failed
         \subseteq h.attempted \cup h.startCompleted \cup h.startFailed
  /\ (pc = "subjLoop" /\ sj > Len(filteredSubjects(session))) =>
       {k \in Unsaved : k[1] = session} = {}

\* C30: a session the ledger had flagged completed when the run loaded it is
\* not navigated to in that run, and no subject of it is selected, no unit of
\* it listed or handed to processUnit.
C30_FlaggedSessionSkipped ==
  \A s \in h.startSessions :
    /\ s \notin h.navigated
    /\ \A e \in h.subjVisited : e[1] # s
    /\ \A k \in h.discovered \cup h.attempted \cup h.skipped : k[1] # s

\* a run loaded a flagged session and its session loop has passed it
C30_Witness ==
  /\ pc = "sessLoop"
  /\ \E i \in 1..Len(validSessions) :
       validSessions[i] \in h.startSessions /\ si > i

\* C31: a unit whose extraction gave no usable row is in the failed set and
\* not in the completed set for the rest of the run, the step that decides it
\* writes no artifact and goes to the ledger save, once that save has written
\* the unit loop goes on to the next unit, and the run is not ended by it.
C31_NoRowsMarkedFailed ==
  /\ [](pc # "crashed" =>
         \A k \in h.returnedFalse :
           k \in progress.failed /\ k \notin progress.completed)
  /\ []((h.returnedFalse # {} /\ ~h.saveErr) => pc # "aborted")
  /\ [][h'.returnedFalse \ h.returnedFalse # {} =>
          artifacts' = artifacts /\ pc' = "save"]_vars
  /\ [][(pc = "writing" /\ saveSite = "noResult" /\ file' = progress) =>
          pc' = "unitFalse"]_vars
  /\ [][(pc = "unitFalse" /\ pc' # "crashed") =>
          pc' = "unitLoop" /\ uk' = uk + 1]_vars

\* a unit gave no usable row and the unit loop has gone on to the next unit
C31_Witness ==
  /\ pc = "unitLoop"
  /\ uk > 1
  /\ Key(session, subject, units[uk - 1]) \in h.returnedFalse

\* C35 (as claimed): in every ledger a run reaches, completedUnits plus
\* failedUnits is at most totalUnits; stated for the runs in which no adapter
\* call and no ledger write raised.
C35_OutcomesWithinTotal ==
  (faults = 0 /\ progress.kind = "ledger") =>
    progress.stats.completedUnits + progress.stats.failedUnits
      <= progress.stats.totalUnits

\* C36: in the ledger in memory and in the ledger document on disk, the two
\* unit counters and the session counter are the sizes of their sets.
C36_CountersMatchSets ==
  \A p \in {progress, file} :
    p.kind = "ledger" =>
      /\ p.stats.completedUnits = Cardinality(p.completed)
      /\ p.stats.failedUnits = Cardinality(p.failed)
      /\ p.stats.completedSessions = Cardinality(p.completedSessions)

\* a later run has loaded a ledger with units of both sets and a flagged
\* session, and has marked a further unit
C36_Witness ==
  /\ run > 1
  /\ h.startCompleted # {} /\ h.startFailed # {} /\ h.startSessions # {}
  /\ h.attempted # {}
  /\ file.kind = "ledger" /\ file.completed # h.startCompleted

\* C37: every unit in the completed set of the ledger document on disk has
\* its artifact file.
C37_CompletedHaveArtifact ==
  file.kind = "ledger" => file.completed \subseteq artifacts

\* the process was ended after an artifact was written and before the ledger
\* that records it, and the run after it has written a ledger with completed
\* units
C37_Witness ==
  /\ h.prevEnd = "crashed"
  /\ file.kind = "ledger" /\ file.completed # {}
  /\ artifacts \ file.completed # {}

\* every valid session of the site lists at least one unit among its subjects
ValidSessionSet == {validSessions[i] : i \in 1..Len(validSessions)}

EverySessionHasUnits == \A s \in ValidSessionSet : SessionUnitKeys(s) # {}

\* the run in progress has selected no session, no subject and no unit
NothingSelected ==
  /\ h.navigated = {} /\ h.discovered = {}
  /\ h.subjVisited = {}
  /\ h.attempted = {} /\ h.skipped = {}

\* C34 (as claimed): when the last two runs each ended with the summary and
\* without a session or subject selection that threw, and every valid session
\* lists a unit, the ledger on disk and the ledger loaded from it flag every
\* valid session, and the run in progress selects nothing.
C34_TwoRunsFlagEverySession ==
  (h.completeRuns >= 2 /\ EverySessionHasUnits) =>
    /\ \A p \in {progress, file} :
         (p.kind = "ledger" /\ (p = file \/ (h.startKind # "none" /\ pc # "crashed"))) =>
           ValidSessionSet \subseteq p.completedSessions
    /\ NothingSelected

\* C39 (as claimed): with at least one valid session, ledger writes that
\* succeed and adapter calls that return or raise, every run that starts
\* reaches the state after the final ledger save, where the summary is
\* printed.
C39_RunReachesSummary ==
  (pc = "init" /\ Len(validSessions) # 0) ~> (pc = "done")

\* the raw entry of a variant of the group in hand
VariantEntry(v) ==
  rawTree[CHOOSE i \in 1..Len(rawTree) :
            rawTree[i].name = group.subjectVariants[v]]

\* the places (variant, index in its listing) of the files with a unit code
\* that the loops have taken so far in the group in hand, read off the raw
\* tree and the position of the loops
Seen ==
  UNION {{<<v, k>> :
            k \in {n \in CodedFiles(VariantEntry(v)) :
                     v < vi \/ (orgPc = "files" /\ n < fk)}} :
           v \in {w \in 1..Len(group.subjectVariants) :
                    /\ w <= vi
                    /\ VariantEntry(w).isDirectory
                    /\ VariantEntry(w).errno = "none"}}

NameAt(p) == VariantEntry(p[1]).files[p[2]]

SeenBefore(q, p) == q[1] < p[1] \/ (q[1] = p[1] /\ q[2] < p[2])

\* the places whose unit code no earlier place has
FirstSeen ==
  {p \in Seen :
     \A q \in Seen :
       SeenBefore(q, p) => parseUnitCode(NameAt(q)) # parseUnitCode(NameAt(p))}

NoFileVanishes == \A i \in 1..Len(rawTree) : rawTree[i].gone = {}

InGroup == orgPc \in {"variants", "files"}

\* C32: while a group is merged from folders none of whose files vanishes,
\* the copies made for the group are the files first seen for their unit
\* code, in the order of the variants and of each listing, and the files
\* seen later with a unit code already seen are the duplicates counted, none
\* of them copied.
C32_FirstSeenWins ==
  (InGroup /\ NoFileVanishes) =>
    /\ {r \in target.copied : r.group = gi}
         = {Copy(gi, p[1], p[2], NameAt(p)) : p \in FirstSeen}
    /\ \A p \in FirstSeen : <<targetSubjectPath, NameAt(p)>> \in target.files
    /\ duplicatesFound = Cardinality(Seen \ FirstSeen)
    /\ processedUnitCodes = {parseUnitCode(NameAt(p)) : p \in FirstSeen}

\* a file of a later variant was counted as a duplicate of a file copied from
\* an earlier variant
C32_Witness ==
  /\ InGroup /\ NoFileVanishes
  /\ duplicatesFound > 0
  /\ \E p \in Seen \ FirstSeen : \E q \in FirstSeen :
       /\ q[1] < p[1]
       /\ parseUnitCode(NameAt(q)) = parseUnitCode(NameAt(p))
       /\ NameAt(q) # NameAt(p)
       /\ Copy(gi, q[1], q[2], NameAt(q)) \in target.copied

\* the file in hand is a .json file whose name gives no unit code
AtUnparsed ==
  AtFile /\ endsWithJson(files[fk]) /\ parseUnitCode(files[fk]) = NoCode

\* C33: a .json file without a unit code is never copied, never in the set
\* of unit codes and never counted: the files counted are the files with a
\* unit code seen so far; the step that takes it changes neither the target
\* tree nor the counts and goes on to the next file of the variant.
C33_UnparsedSkipped ==
  /\ [](/\ NoCode \notin processedUnitCodes
        /\ \A r \in target.copied : parseUnitCode(r.name) # NoCode
        /\ \A f \in target.files : parseUnitCode(f[2]) # NoCode
        /\ (InGroup /\ NoFileVanishes) => processedFiles = Cardinality(Seen))
  /\ [][AtUnparsed =>
          /\ fk' = fk + 1 /\ orgPc' = "files" /\ vi' = vi
          /\ UNCHANGED <<target, processedUnitCodes, processedFiles,
                         duplicatesFound, totalFiles, duplicates>>]_vars

\* a file with a unit code was copied from a variant after a .json file
\* without one had been passed over in it
C33_Witness ==
  /\ orgPc = "files"
  /\ \E k \in 1..(fk - 1) :
       /\ endsWithJson(files[k]) /\ parseUnitCode(files[k]) = NoCode
       /\ \E r \in target.copied :
            r.group = gi /\ r.variant = vi /\ r.index > k /\ r.index < fk
  /\ processedFiles = 1

\* C38 (as claimed): a file is counted as a duplicate only when a file with
\* its unit code was copied to the target folder for the group in hand.
C38_DuplicateOnlyIfCopied ==
  [][duplicatesFound' = duplicatesFound + 1 =>
       \E r \in target.copied :
         r.group = gi /\ parseUnitCode(r.name) = parseUnitCode(files[fk])]_vars

====
